---------------------------- MODULE Spec2Model ----------------------------
(***************************************************************************)
(* Authentication and session core of the backend template:                *)
(*   - SessionService (Redis-backed sessions with sliding expiration),     *)
(*   - the requireAuth / requireSession middlewares,                       *)
(*   - the API-key routes they guard.                                      *)
(* Every Redis / database round trip is one step of the calling request,   *)
(* so that requests interleave exactly at the awaits of the source.        *)
(***************************************************************************)
EXTENDS Integers, Sequences, FiniteSets, TLC

\* ------------------------------------------------------------------ bounds
MaxClock == 3
MaxTtl == 2
MaxThreshold == 1
MaxFaults == 1

Procs == {1, 2}
Tokens == {1, 2}       \* tokens generateSessionToken can produce
Forged == 3            \* a well-formed token that was never generated
AllTokens == Tokens \cup {Forged}
Users == {"u1", "u2"}
TtlValues == 2..MaxTtl
ThresholdValues == 1..MaxThreshold

NoToken == 0

Routes == {"GET /api-keys", "POST /api-keys", "DELETE /api-keys/:id"}
\* The session routes of the auth router.
SessionRoutes == {"GET /auth/sessions", "DELETE /auth/sessions/:id"}
NameMax == 12          \* longest username prefix of an API key
HexLen == 128          \* hex characters of randomBytes(64)
DigestMod == 46337     \* digests are numbers below this prime
RandomHex == {"r1"}    \* the values randomBytes(64) yields, by name
\* An API key is written [name, body]: the text name_body, or body alone
\* when the name is empty; body names a string of hex characters.
ForgedKey == [name |-> <<>>, body |-> "rf"]     \* well-formed, never generated
Malformed == [name |-> <<>>, body |-> "short"]  \* one hex character short
NoKey == [name |-> <<>>, body |-> "none"]       \* no Authorization: Bearer header
NoExpiry == -1         \* expiresAt null
KeyIds == {1}
NoUser == "nobody"
NoTtl == -1
NoTime == -1
TokenLen == 64         \* hex characters of randomBytes(32)
PrefixLen == 8         \* characters of a token that may be logged
FingerprintLen == 6    \* trailing hash characters shown for an API key

VARIABLES
  clock,     \* Math.floor(Date.now() / 1000), also the Redis server's clock
  config,    \* SESSION_TTL_SECONDS, SESSION_SLIDING_EXTENSION_SECONDS
  sess,      \* Redis keys sess:<token>: <<>> or <<[val, ttl]>>
  idx,       \* Redis sets user:<id>:sessions
  idxTtl,    \* expiry time of each index key, NoTtl when it has none
  proc,      \* the in-flight calls: position, arguments, locals, result
  used,      \* tokens generateSessionToken has produced so far
  issued,    \* history: tokens createSession(u, ...) has returned, per user
  revoked,   \* history: tokens for which a deleteSession call has completed
  last,      \* history: u when the call that returned most recently was a
             \* successful deleteAllUserSessions(u), NoUser otherwise
  mode,      \* how many calls the environment keeps in flight
  users,     \* User Store rows: <<>> or <<[roles, isActive]>>
  faults,    \* how many more store commands the environment lets fail
  apiKeys,   \* database table ApiKey: [id, userId, keyHash, expiresAt, lastUsedAt]
  minted,    \* plaintext keys generateApiKey has produced so far
  touch,     \* updateLastUsed calls that were started and not awaited
  chain,     \* history: per token, when the session was last created or read,
             \* NoTime once it was deleted or left unread for too long
  fresh,     \* history: <<[tok, uid, at]>> when the call that returned most
             \* recently was a successful createSession, <<>> otherwise
  born,      \* history: per token, when its session was created, for as long
             \* as the lifetime it was created with lasts; NoTime otherwise
  redisConnected, \* oauthService: the module's own Redis client is connected
  oauthState,     \* Redis keys oauth:state:<state>: <<>> or <<[val, ttl]>>
  validated       \* history: per state, how many validateOAuthState calls
                  \* returned its data

vars == <<clock, config, sess, idx, idxTtl, proc, used, issued, revoked, last, mode, users, faults,
          apiKeys, minted, touch, chain, fresh, born, redisConnected, oauthState, validated>>

\* ----------------------------------------------------------- local state
Idle ==
  [pc |-> "idle", op |-> "none", tok |-> NoToken, uid |-> NoUser,
   data |-> <<>>, tokset |-> {}, acc |-> <<>>,
   out |-> <<>>, err |-> FALSE, storeErr |-> FALSE, inner |-> FALSE,
   after |-> FALSE, read |-> <<>>, now |-> 0,
   mw |-> "none", route |-> "none", bearer |-> NoKey, cookie |-> NoToken,
   body |-> NoExpiry, param |-> 0, resp |-> "none", cookieCleared |-> FALSE,
   cookieRead |-> FALSE, reqUser |-> <<>>, reqSession |-> <<>>,
   reqApiKey |-> <<>>, plaintext |-> NoKey,
   allowedRoles |-> {}, hierarchical |-> TRUE, log |-> {},
   password |-> TRUE, cookieSet |-> FALSE, missing |-> {},
   pending |-> <<>>, state |-> "none"]

\* ---------------------------------------------------------------- logging
\* A log entry: the message and those fields of its context that carry an
\* id or (part of) a credential.  Each call keeps the entries it wrote.
\* Debug entries are written in development mode only; the model has them.
LogEntry(msg) ==
  [msg |-> msg, userId |-> NoUser, tokenIdHash |-> <<>>, sessionId |-> <<>>,
   keyFingerprint |-> <<>>, apiKeyId |-> 0]
Logged(q, entries) == [q EXCEPT !.log = @ \cup entries]

\* The text of a session token: randomBytes(32).toString('hex').
HexDigits == <<"0", "1", "2", "3", "4", "5", "6", "7", "8", "9",
               "a", "b", "c", "d", "e", "f">>
TokenText == [t \in AllTokens |-> [i \in 1..TokenLen |-> HexDigits[((t * i) % 16) + 1]]]

\* s.substring(a, b)
substring(s, a, b) == SubSeq(s, a + 1, IF b < Len(s) THEN b ELSE Len(s))

\* tokenId.substring(0, 8)
TokenIdHash == [t \in AllTokens |-> substring(TokenText[t], 0, PrefixLen)]

\* keyHash.slice(-6): the last six hex digits of the digest.
Pow16 == <<1, 16, 256, 4096, 65536, 1048576>>
KeyFingerprint(keyHash) ==
  [i \in 1..FingerprintLen |-> HexDigits[((keyHash \div Pow16[FingerprintLen + 1 - i]) % 16) + 1]]

InFlight == {p \in Procs : proc[p].pc \notin {"idle"}}

\* Tokens a client can present: the ones createSession has handed out,
\* and made-up ones.  A token nobody was given is unguessable.
Presentable == UNION {issued[u] : u \in Users} \cup {Forged}

\* The longest pause between two reads of a session that the sliding
\* expiration is meant to bridge.
MaxGap == config.SESSION_TTL_SECONDS - config.SESSION_SLIDING_EXTENSION_SECONDS

\* History: the sessions in ts are deleted, or no longer read in time.
Unchain(ts) == [t \in AllTokens |-> IF t \in ts THEN NoTime ELSE chain[t]]
OwnedBy(u) == issued[u] \cup {proc[p].tok : p \in {q \in Procs : proc[q].op = "createSession" /\ proc[q].uid = u}}

\* The environment starts a call on the lowest free slot, and only while
\* fewer than `mode` calls are in flight.
CanStart(p) ==
  /\ proc[p].pc = "idle"
  /\ Cardinality(InFlight) < mode
  /\ \A q \in Procs : q < p => proc[q].pc # "idle"

\* ------------------------------------------------------------ Redis store
SetEx(s, t, ttl, v) == [s EXCEPT ![t] = <<[val |-> v, ttl |-> clock + ttl]>>]
Get(s, t) == IF s[t] = <<>> THEN <<>> ELSE <<s[t][1].val>>
Del(s, ts) == [t \in AllTokens |-> IF t \in ts THEN <<>> ELSE s[t]]

\* A Redis set that becomes empty ceases to exist and loses its expiry.
SRemTtl(u, t) == IF idx[u] \ {t} = {} THEN [idxTtl EXCEPT ![u] = NoTtl] ELSE idxTtl
\* EXPIRE on a missing key does nothing.
ExpireTtl(u, ttl) == IF idx[u] = {} THEN idxTtl ELSE [idxTtl EXCEPT ![u] = clock + ttl]

\* Native expiry: a key is gone once its time to live has elapsed.
Expired(e, c) == e # NoTtl /\ e <= c
ExpireSess(s, c) == [t \in AllTokens |-> IF s[t] # <<>> /\ Expired(s[t][1].ttl, c) THEN <<>> ELSE s[t]]
ExpireIdx(i, e, c) == [u \in Users |-> IF Expired(e[u], c) THEN {} ELSE i[u]]
ExpireIdxTtl(e, c) == [u \in Users |-> IF Expired(e[u], c) THEN NoTtl ELSE e[u]]

\* A command reaches Redis and is executed, or the client rejects with a
\* connection error.
StoreOk == faults' = faults
StoreFails == faults > 0 /\ faults' = faults - 1

\* --------------------------------------------------------------- returns
\* An HTTP response is sent; the request is over.
Responded(q, code) == [q EXCEPT !.pc = "done", !.resp = code]

\* sendErrorResponse({ errorCode, logMessage, context })
sendErrorResponse(q, code, entry) == Responded(Logged(q, {entry}), code)

\* Mutant: an invalid session is reported, the cookie is left in place.
AfterGetSession_KeepsCookie(q) ==
  IF q.out = <<>>
  THEN Responded(q, "INVALID_TOKEN")
  ELSE [q EXCEPT !.pc = "auth_findUnique"]

\* requireAuth / requireSession resume after `await getSession(...)`.
AfterGetSession(q) ==
  IF q.out = <<>>
  THEN sendErrorResponse([q EXCEPT !.cookieCleared = TRUE], "INVALID_TOKEN",
         [LogEntry("Invalid or expired session") EXCEPT !.tokenIdHash = TokenIdHash[q.cookie]])
  ELSE [q EXCEPT !.pc = "auth_findUnique"]

\* requireAuth / requireSession resume after `await deleteSession(...)`;
\* a throw lands in the middleware's catch block.
AfterDeleteSession(q) ==
  IF q.err
  THEN sendErrorResponse(q, "INTERNAL_ERROR",
         LogEntry(IF q.mw = "requireAuth" THEN "Authentication error"
                  ELSE "Session validation error"))
  ELSE sendErrorResponse(q, "AUTHENTICATION_REQUIRED",
         [LogEntry("User not found for valid session") EXCEPT
            !.userId = q.read[1].uid, !.tokenIdHash = TokenIdHash[q.cookie]])

\* The handlers that log a user in.
LoginHandlers == {"loginHandler", "registerHandler", "googleCallbackHandler"}

\* The catch block of a login handler.  googleCallbackHandler logs and
\* calls next(error); errorHandler answers an Error that is neither an
\* AppError nor a Prisma error and does not mention Redis as an unhandled
\* error.
HandlerFailed(q) ==
  IF q.mw = "googleCallbackHandler"
  THEN sendErrorResponse(Logged(q, {LogEntry("Google OAuth callback failed")}),
                         "INTERNAL_ERROR", LogEntry("Unhandled error"))
  ELSE sendErrorResponse(q, "INTERNAL_ERROR",
                         LogEntry(IF q.mw = "loginHandler" THEN "Login failed"
                                  ELSE "Registration failed"))

\* logger.info('Google OAuth login successful', { userId, sessionId: session })
SessionIdLogged(t) == TokenText[t]

\* Mutant: the handler goes on although createSession threw.
AfterCreateSession_IgnoresError(q) ==
  IF q.mw = "googleCallbackHandler"
  THEN Responded([q EXCEPT !.cookieSet = TRUE], "REDIRECT")
  ELSE [q EXCEPT !.pc = "getSession_get", !.op = "getSession"]

\* A login handler resumes after `await createSession(...)`.
AfterCreateSession(q) ==
  IF q.err THEN HandlerFailed(q)
  ELSE IF q.mw = "googleCallbackHandler"
  THEN Responded(Logged([q EXCEPT !.cookieSet = TRUE],
                        {[LogEntry("Google OAuth login successful") EXCEPT
                            !.userId = q.uid, !.sessionId = SessionIdLogged(q.tok)]}),
                 "REDIRECT")
  ELSE [q EXCEPT !.pc = "getSession_get", !.op = "getSession"]

\* loginHandler / registerHandler resume after `await getSession(...)`.
AfterLoginGetSession(q) ==
  IF q.out = <<>> THEN HandlerFailed(q)
  ELSE [q EXCEPT !.cookieSet = TRUE, !.pc = "login_update"]

\* deleteSessionHandler resumes after `await listUserSessions(user.id)` or
\* `await deleteSession(sessionIdToDelete)`; a throw lands in its catch
\* block.
deleteSessionHandler_resume(q) ==
  LET hash == TokenIdHash[q.param]
      uid == q.reqUser[1].id
  IN IF q.err
     THEN sendErrorResponse(q, "DELETE_SESSION_FAILED",
            [LogEntry("Failed to delete session") EXCEPT !.tokenIdHash = hash])
     ELSE IF q.op = "listUserSessions"
     THEN IF \A i \in 1..Len(q.out) : q.out[i].tokenId # q.param
          THEN sendErrorResponse(q, "SESSION_NOT_FOUND",
                 [LogEntry("Attempt to delete non-existent or unauthorized session")
                    EXCEPT !.userId = uid, !.tokenIdHash = hash])
          ELSE [q EXCEPT !.pc = "deleteSession_get", !.op = "deleteSession",
                         !.tok = q.param, !.inner = FALSE]
     ELSE Responded(Logged(q, {[LogEntry("Session deleted by user") EXCEPT
                                  !.userId = uid, !.tokenIdHash = hash]}), "OK")

\* listSessionsHandler resumes after `await listUserSessions(user.id)` or
\* after one of the getSession calls it maps over the listed sessions.
\* The calls start in list order, and the model runs them one after the
\* other (`pending` holds the sessions not yet looked up, the current one
\* first).
listSessionsHandler_resume(q) ==
  IF q.err
  THEN sendErrorResponse(q, "LIST_SESSIONS_FAILED", LogEntry("Failed to list sessions"))
  ELSE LET rest == IF q.op = "listUserSessions" THEN q.out ELSE Tail(q.pending)
       IN IF rest = <<>>
          THEN Responded(Logged([q EXCEPT !.pending = <<>>],
                                {[LogEntry("Sessions listed") EXCEPT
                                    !.userId = q.reqUser[1].id]}),
                         "OK")
          ELSE [q EXCEPT !.pc = "getSession_get", !.op = "getSession",
                         !.tok = rest[1].tokenId, !.pending = rest,
                         !.after = (rest[1].tokenId \in revoked),
                         !.inner = FALSE]

\* Where a finished service call continues.
Resume(q) ==
  IF q.mw = "none" THEN [q EXCEPT !.pc = "done"]
  ELSE IF q.mw \in LoginHandlers
  THEN IF q.op = "createSession" THEN AfterCreateSession(q) ELSE AfterLoginGetSession(q)
  ELSE IF q.reqUser # <<>> /\ q.route = "DELETE /auth/sessions/:id"
  THEN deleteSessionHandler_resume(q)
  ELSE IF q.reqUser # <<>> /\ q.route = "GET /auth/sessions"
  THEN listSessionsHandler_resume(q)
  ELSE IF q.op = "getSession" THEN AfterGetSession(q)
  ELSE AfterDeleteSession(q)

\* What a SessionService call writes to the log when it ends (se: in its
\* catch block).
ServiceLog(q, se) ==
  LET hash == IF q.tok \in AllTokens THEN TokenIdHash[q.tok] ELSE <<>>
  IN IF q.pc \in {"deleteSession_get", "deleteSession_sRem", "deleteSession_del"}
     THEN IF se
          THEN {[LogEntry("Failed to delete session") EXCEPT !.tokenIdHash = hash]}
               \cup IF q.inner
                    THEN {[LogEntry("Failed to get session") EXCEPT !.tokenIdHash = hash]}
                    ELSE {}
          ELSE {[LogEntry("Session deleted") EXCEPT !.tokenIdHash = hash]}
     ELSE IF q.op = "createSession"
     THEN IF se
          THEN {[LogEntry("Failed to create session") EXCEPT !.userId = q.uid]}
          ELSE {[LogEntry("Session created") EXCEPT !.userId = q.uid, !.tokenIdHash = hash]}
     ELSE IF q.op = "getSession"
     THEN IF se
          THEN {[LogEntry("Failed to get session") EXCEPT !.tokenIdHash = hash]}
          ELSE IF q.pc = "getSession_setEx"
          THEN {[LogEntry("Session extended") EXCEPT !.tokenIdHash = hash]}
          ELSE {}
     ELSE IF q.op = "deleteAllUserSessions"
     THEN IF se
          THEN {[LogEntry("Failed to delete all user sessions") EXCEPT !.userId = q.uid]}
          ELSE IF q.pc = "deleteAllUserSessions_delIndex"
          THEN {[LogEntry("All user sessions deleted") EXCEPT !.userId = q.uid]}
          ELSE {}
     ELSE IF se
     THEN {[LogEntry("Failed to list user sessions") EXCEPT !.userId = q.uid]}
     ELSE {}

\* The call of process p ends in local state q: result r, error flag e
\* (the call threw).
FinishFrom(p, q, r, e, se) ==
  /\ proc' = [proc EXCEPT ![p] = Resume([Logged(q, ServiceLog(q, se)) EXCEPT
                 !.out = r, !.err = e, !.storeErr = se,
                 !.tokset = {}, !.acc = <<>>])]
  /\ issued' = IF proc[p].op = "createSession" /\ ~e
               THEN [issued EXCEPT ![proc[p].uid] = @ \cup {proc[p].tok}]
               ELSE issued
  /\ revoked' = IF proc[p].op = "deleteSession" /\ ~e
                THEN revoked \cup {proc[p].tok}
                ELSE revoked

Finish(p, r, e, se) == FinishFrom(p, proc[p], r, e, se)

\* getSession returns the session it read, untouched.
FinishRead(p, session, now) ==
  /\ proc' = [proc EXCEPT ![p] = Resume([proc[p] EXCEPT
                 !.out = <<session>>, !.read = <<session>>, !.now = now])]
  /\ UNCHANGED <<issued, revoked>>

\* The caller takes the result; the slot is free again.
Return(p) ==
  /\ proc[p].pc = "done"
  /\ last' = IF proc[p].op = "deleteAllUserSessions" /\ ~proc[p].err
             THEN proc[p].uid ELSE NoUser
  /\ fresh' = IF proc[p].op = "createSession" /\ ~proc[p].err
              THEN <<[tok |-> proc[p].tok, uid |-> proc[p].uid,
                      at |-> proc[p].data[1].createdAt]>>
              ELSE <<>>
  /\ proc' = [proc EXCEPT ![p] = Idle]
  /\ UNCHANGED <<born, chain, clock, config, sess, idx, idxTtl, used, issued, revoked, mode, redisConnected, oauthState, validated, users, faults, apiKeys, minted, touch>>

\* ---------------------------------------------------------- createSession
\* randomBytes(32): a token no earlier call has produced.  Which unused
\* token comes out is immaterial, so the model takes the lowest.
generateSessionToken ==
  {t \in Tokens : t \notin used /\ \A s \in Tokens : s < t => s \in used}

\* Mutant: exp holds the lifetime, not the time of expiry.
SessionPayload_ExpIsTtl(u, now) ==
  [uid |-> u, roles |-> users[u][1].roles, exp |-> config.SESSION_TTL_SECONDS,
   createdAt |-> now, lastUsedAt |-> now]

\* The record createSession stores for user u at time now.
SessionPayload(u, now) ==
  [uid |-> u, roles |-> users[u][1].roles, exp |-> now + config.SESSION_TTL_SECONDS,
   createdAt |-> now, lastUsedAt |-> now]

createSession(p) ==
  /\ CanStart(p)
  /\ \E u \in Users, t \in generateSessionToken :
       /\ users[u] # <<>>
       /\ proc' = [proc EXCEPT ![p] =
            [Idle EXCEPT !.pc = "createSession_setEx", !.op = "createSession",
                         !.tok = t, !.uid = u,
                         !.data = <<SessionPayload(u, clock)>>]]
       /\ used' = used \cup {t}
       /\ chain' = [chain EXCEPT ![t] = clock]
       /\ born' = [born EXCEPT ![t] = clock]
  /\ UNCHANGED <<fresh, clock, config, sess, idx, idxTtl, issued, revoked, last, mode, redisConnected, oauthState, validated, users, faults, apiKeys, minted, touch>>

createSession_setEx(p) ==
  /\ proc[p].pc = "createSession_setEx"
  /\ \/ /\ StoreOk
        /\ sess' = SetEx(sess, proc[p].tok, config.SESSION_TTL_SECONDS, proc[p].data[1])
        /\ proc' = [proc EXCEPT ![p].pc = "createSession_sAdd"]
        /\ UNCHANGED <<issued, revoked>>
     \/ /\ StoreFails
        /\ Finish(p, <<>>, TRUE, TRUE)
        /\ UNCHANGED sess
  /\ UNCHANGED <<born, fresh, chain, clock, config, idx, idxTtl, used, last, mode, redisConnected, oauthState, validated, users, apiKeys, minted, touch>>

createSession_sAdd(p) ==
  /\ proc[p].pc = "createSession_sAdd"
  /\ \/ /\ StoreOk
        /\ idx' = [idx EXCEPT ![proc[p].uid] = @ \cup {proc[p].tok}]
        /\ proc' = [proc EXCEPT ![p].pc = "createSession_expire"]
        /\ UNCHANGED <<issued, revoked>>
     \/ /\ StoreFails
        /\ Finish(p, <<>>, TRUE, TRUE)
        /\ UNCHANGED idx
  /\ UNCHANGED <<born, fresh, chain, clock, config, sess, idxTtl, used, last, mode, redisConnected, oauthState, validated, users, apiKeys, minted, touch>>

createSession_expire(p) ==
  /\ proc[p].pc = "createSession_expire"
  /\ \/ /\ StoreOk
        /\ idxTtl' = ExpireTtl(proc[p].uid, config.SESSION_TTL_SECONDS)
        /\ Finish(p, <<proc[p].tok>>, FALSE, FALSE)
     \/ /\ StoreFails
        /\ Finish(p, <<>>, TRUE, TRUE)
        /\ UNCHANGED idxTtl
  /\ UNCHANGED <<born, fresh, chain, clock, config, sess, idx, used, last, mode, redisConnected, oauthState, validated, users, apiKeys, minted, touch>>

\* ---------------------------------------------------------- deleteSession
deleteSession(p) ==
  /\ CanStart(p)
  /\ \E t \in Presentable :
       proc' = [proc EXCEPT ![p] =
            [Idle EXCEPT !.pc = "deleteSession_get", !.op = "deleteSession", !.tok = t]]
       /\ chain' = Unchain({t})
  /\ UNCHANGED <<born, fresh, clock, config, sess, idx, idxTtl, used, issued, revoked, last, mode, redisConnected, oauthState, validated, users, faults, apiKeys, minted, touch>>

\* Mutant: getSession lets the error of its deleteSession through.
deleteSession_throw_Rethrows(p) == Finish(p, <<>>, TRUE, TRUE)

\* deleteSession throws; inside getSession the throw lands in getSession's
\* catch block, which returns null.
deleteSession_throw(p) ==
  IF proc[p].inner THEN Finish(p, <<>>, FALSE, TRUE) ELSE Finish(p, <<>>, TRUE, TRUE)

\* Mutant: a missing record makes deleteSession throw.
deleteSession_get_ThrowsOnMissing(p) ==
  /\ proc[p].pc = "deleteSession_get"
  /\ StoreOk
  /\ IF Get(sess, proc[p].tok) # <<>>
     THEN /\ proc' = [proc EXCEPT ![p].data = Get(sess, proc[p].tok),
                                  ![p].pc = "deleteSession_sRem"]
          /\ UNCHANGED <<issued, revoked>>
     ELSE deleteSession_throw(p)
  /\ UNCHANGED <<born, fresh, chain, clock, config, sess, idx, idxTtl, used, last, mode, redisConnected, oauthState, validated, users, apiKeys, minted, touch>>

deleteSession_get(p) ==
  /\ proc[p].pc = "deleteSession_get"
  /\ \/ /\ StoreOk
        /\ proc' = [proc EXCEPT ![p].data = Get(sess, proc[p].tok),
                                ![p].pc = IF Get(sess, proc[p].tok) # <<>>
                                          THEN "deleteSession_sRem"
                                          ELSE "deleteSession_del"]
        /\ UNCHANGED <<issued, revoked>>
     \/ /\ StoreFails
        /\ deleteSession_throw(p)
  /\ UNCHANGED <<born, fresh, chain, clock, config, sess, idx, idxTtl, used, last, mode, redisConnected, oauthState, validated, users, apiKeys, minted, touch>>

\* Mutant: the whole index of the user is dropped.
deleteSession_sRem_DropsIndex(p) ==
  /\ proc[p].pc = "deleteSession_sRem"
  /\ StoreOk
  /\ idx' = [idx EXCEPT ![proc[p].data[1].uid] = {}]
  /\ idxTtl' = [idxTtl EXCEPT ![proc[p].data[1].uid] = NoTtl]
  /\ proc' = [proc EXCEPT ![p].pc = "deleteSession_del"]
  /\ UNCHANGED <<issued, revoked>>
  /\ UNCHANGED <<born, fresh, chain, clock, config, sess, used, last, mode, redisConnected, oauthState, validated, users, apiKeys, minted, touch>>

deleteSession_sRem(p) ==
  /\ proc[p].pc = "deleteSession_sRem"
  /\ \/ /\ StoreOk
        /\ idx' = [idx EXCEPT ![proc[p].data[1].uid] = @ \ {proc[p].tok}]
        /\ idxTtl' = SRemTtl(proc[p].data[1].uid, proc[p].tok)
        /\ proc' = [proc EXCEPT ![p].pc = "deleteSession_del"]
        /\ UNCHANGED <<issued, revoked>>
     \/ /\ StoreFails
        /\ deleteSession_throw(p)
        /\ UNCHANGED <<idx, idxTtl>>
  /\ UNCHANGED <<born, fresh, chain, clock, config, sess, used, last, mode, redisConnected, oauthState, validated, users, apiKeys, minted, touch>>

\* Mutant: the record is not deleted.
deleteSession_del_KeepsRecord(p) ==
  /\ proc[p].pc = "deleteSession_del"
  /\ StoreOk
  /\ Finish(p, <<>>, FALSE, FALSE)
  /\ UNCHANGED <<born, fresh, chain, clock, config, sess, idx, idxTtl, used, last, mode, redisConnected, oauthState, validated, users, apiKeys, minted, touch>>

deleteSession_del(p) ==
  /\ proc[p].pc = "deleteSession_del"
  /\ \/ /\ StoreOk
        /\ sess' = Del(sess, {proc[p].tok})
        /\ Finish(p, <<>>, FALSE, FALSE)
     \/ /\ StoreFails
        /\ deleteSession_throw(p)
        /\ UNCHANGED sess
  /\ UNCHANGED <<born, fresh, chain, clock, config, idx, idxTtl, used, last, mode, redisConnected, oauthState, validated, users, apiKeys, minted, touch>>

\* ------------------------------------------------------------- getSession
getSession(p) ==
  /\ CanStart(p)
  /\ \E t \in Presentable :
       proc' = [proc EXCEPT ![p] =
            [Idle EXCEPT !.pc = "getSession_get", !.op = "getSession", !.tok = t,
                         !.after = (t \in revoked)]]
  /\ UNCHANGED <<born, fresh, chain, clock, config, sess, idx, idxTtl, used, issued, revoked, last, mode, redisConnected, oauthState, validated, users, faults, apiKeys, minted, touch>>

getSession_get(p) ==
  /\ proc[p].pc = "getSession_get"
  /\ \/ /\ StoreOk
        /\ proc' = [proc EXCEPT ![p].data = Get(sess, proc[p].tok),
                                ![p].pc = "getSession_check"]
        /\ UNCHANGED <<issued, revoked>>
     \/ /\ StoreFails
        /\ Finish(p, <<>>, FALSE, TRUE)
  /\ UNCHANGED <<born, fresh, chain, clock, config, sess, idx, idxTtl, used, last, mode, redisConnected, oauthState, validated, users, apiKeys, minted, touch>>

\* The continuation after the read: expiry check and sliding expiration.
\* Mutant: no read renews.
SlidingDue_Never(session, now) == FALSE

\* Mutant: every read renews.
SlidingDue_Always(session, now) == now - session.lastUsedAt >= 0

SlidingDue(session, now) ==
  now - session.lastUsedAt >= config.SESSION_SLIDING_EXTENSION_SECONDS

\* Mutant: the expiry is not pushed forward.
Extended_KeepsExp(session, now) == [session EXCEPT !.lastUsedAt = now]

Extended(session, now) ==
  [session EXCEPT !.lastUsedAt = now, !.exp = now + config.SESSION_TTL_SECONDS]

getSession_check(p) ==
  /\ proc[p].pc = "getSession_check"
  /\ IF proc[p].data = <<>>
     THEN Finish(p, <<>>, FALSE, FALSE)
     ELSE LET session == proc[p].data[1]
              now == clock
          IN IF session.exp <= now
             THEN /\ proc' = [proc EXCEPT ![p].pc = "deleteSession_get",
                                          ![p].read = <<session>>,
                                          ![p].now = now,
                                          ![p].inner = TRUE]
                  /\ UNCHANGED <<issued, revoked>>
             ELSE IF SlidingDue(session, now)
             THEN /\ proc' = [proc EXCEPT ![p].pc = "getSession_setEx",
                                          ![p].read = <<session>>,
                                          ![p].now = now,
                                          ![p].data = <<Extended(session, now)>>]
                  /\ UNCHANGED <<issued, revoked>>
             ELSE FinishRead(p, session, now)
  /\ chain' = IF proc[p].data # <<>> /\ proc[p].data[1].exp > clock
              THEN [chain EXCEPT ![proc[p].tok] = IF @ = NoTime THEN NoTime ELSE clock]
              ELSE Unchain({proc[p].tok})
  /\ UNCHANGED <<born, fresh, clock, config, sess, idx, idxTtl, used, last, mode, redisConnected, oauthState, validated, users, faults, apiKeys, minted, touch>>

getSession_setEx(p) ==
  /\ proc[p].pc = "getSession_setEx"
  /\ \/ /\ StoreOk
        /\ sess' = SetEx(sess, proc[p].tok, config.SESSION_TTL_SECONDS, proc[p].data[1])
        /\ Finish(p, proc[p].data, FALSE, FALSE)
     \/ /\ StoreFails
        /\ Finish(p, <<>>, FALSE, TRUE)
        /\ UNCHANGED sess
  /\ UNCHANGED <<born, fresh, chain, clock, config, idx, idxTtl, used, last, mode, redisConnected, oauthState, validated, users, apiKeys, minted, touch>>

\* -------------------------------------------------- deleteAllUserSessions
deleteAllUserSessions(p) ==
  /\ CanStart(p)
  /\ \E u \in Users :
       proc' = [proc EXCEPT ![p] =
            [Idle EXCEPT !.pc = "deleteAllUserSessions_sMembers",
                         !.op = "deleteAllUserSessions", !.uid = u]]
       /\ chain' = Unchain(OwnedBy(u))
  /\ UNCHANGED <<born, fresh, clock, config, sess, idx, idxTtl, used, issued, revoked, last, mode, redisConnected, oauthState, validated, users, faults, apiKeys, minted, touch>>

\* Mutant: the index is taken to be empty, nothing is deleted.
deleteAllUserSessions_sMembers_SeesNone(p) ==
  /\ proc[p].pc = "deleteAllUserSessions_sMembers"
  /\ StoreOk
  /\ Finish(p, <<>>, FALSE, FALSE)
  /\ UNCHANGED <<born, fresh, chain, clock, config, sess, idx, idxTtl, used, last, mode, redisConnected, oauthState, validated, users, apiKeys, minted, touch>>

deleteAllUserSessions_sMembers(p) ==
  /\ proc[p].pc = "deleteAllUserSessions_sMembers"
  /\ \/ /\ StoreOk
        /\ IF idx[proc[p].uid] # {}
           THEN /\ proc' = [proc EXCEPT ![p].tokset = idx[proc[p].uid],
                                        ![p].pc = "deleteAllUserSessions_del"]
                /\ UNCHANGED <<issued, revoked>>
           ELSE Finish(p, <<>>, FALSE, FALSE)
     \/ /\ StoreFails
        /\ Finish(p, <<>>, TRUE, TRUE)
  /\ UNCHANGED <<born, fresh, chain, clock, config, sess, idx, idxTtl, used, last, mode, redisConnected, oauthState, validated, users, apiKeys, minted, touch>>

deleteAllUserSessions_del(p) ==
  /\ proc[p].pc = "deleteAllUserSessions_del"
  /\ \/ /\ StoreOk
        /\ sess' = Del(sess, proc[p].tokset)
        /\ proc' = [proc EXCEPT ![p].pc = "deleteAllUserSessions_delIndex"]
        /\ UNCHANGED <<issued, revoked>>
     \/ /\ StoreFails
        /\ Finish(p, <<>>, TRUE, TRUE)
        /\ UNCHANGED sess
  /\ UNCHANGED <<born, fresh, chain, clock, config, idx, idxTtl, used, last, mode, redisConnected, oauthState, validated, users, apiKeys, minted, touch>>

deleteAllUserSessions_delIndex(p) ==
  /\ proc[p].pc = "deleteAllUserSessions_delIndex"
  /\ \/ /\ StoreOk
        /\ idx' = [idx EXCEPT ![proc[p].uid] = {}]
        /\ idxTtl' = [idxTtl EXCEPT ![proc[p].uid] = NoTtl]
        /\ Finish(p, <<>>, FALSE, FALSE)
     \/ /\ StoreFails
        /\ Finish(p, <<>>, TRUE, TRUE)
        /\ UNCHANGED <<idx, idxTtl>>
  /\ UNCHANGED <<born, fresh, chain, clock, config, sess, used, last, mode, redisConnected, oauthState, validated, users, apiKeys, minted, touch>>

\* ------------------------------------------------------- listUserSessions
\* sessions.sort((a, b) => b.lastUsedAt - a.lastUsedAt): a stable sort,
\* done here by inserting each element behind the elements that are not
\* older than it.
RECURSIVE SortByLastUsedDesc(_)
\* Mutant: no ordering, the element goes to the front.
InsertDesc_Front(m, sorted) == <<m>> \o sorted

InsertDesc(m, sorted) ==
  LET k == Cardinality({i \in 1..Len(sorted) : sorted[i].lastUsedAt >= m.lastUsedAt})
  IN SubSeq(sorted, 1, k) \o <<m>> \o SubSeq(sorted, k + 1, Len(sorted))
SortByLastUsedDesc(s) ==
  IF s = <<>> THEN <<>>
  ELSE InsertDesc(s[Len(s)], SortByLastUsedDesc(SubSeq(s, 1, Len(s) - 1)))

SessionMetadata(t, session) ==
  [tokenId |-> t, createdAt |-> session.createdAt, lastUsedAt |-> session.lastUsedAt]

listUserSessions(p) ==
  /\ CanStart(p)
  /\ \E u \in Users :
       proc' = [proc EXCEPT ![p] =
            [Idle EXCEPT !.pc = "listUserSessions_sMembers",
                         !.op = "listUserSessions", !.uid = u]]
  /\ UNCHANGED <<born, fresh, chain, clock, config, sess, idx, idxTtl, used, issued, revoked, last, mode, redisConnected, oauthState, validated, users, faults, apiKeys, minted, touch>>

listUserSessions_sMembers(p) ==
  /\ proc[p].pc = "listUserSessions_sMembers"
  /\ \/ /\ StoreOk
        /\ IF idx[proc[p].uid] # {}
           THEN /\ proc' = [proc EXCEPT ![p].tokset = idx[proc[p].uid],
                                        ![p].pc = "listUserSessions_get"]
                /\ UNCHANGED <<issued, revoked>>
           ELSE Finish(p, <<>>, FALSE, FALSE)
     \/ /\ StoreFails
        /\ Finish(p, <<>>, TRUE, TRUE)
  /\ chain' = IF proc'[p].op = "deleteSession" THEN Unchain({proc'[p].tok}) ELSE chain
  /\ UNCHANGED <<born, fresh, clock, config, sess, idx, idxTtl, used, last, mode, redisConnected, oauthState, validated, users, apiKeys, minted, touch>>

\* One turn of the for loop; SMEMBERS returns the members in no particular
\* order, so any remaining token can be the next one.  A token whose
\* record is missing is skipped (history: `missing` keeps the skipped
\* tokens).
listUserSessions_get(p) ==
  /\ proc[p].pc = "listUserSessions_get"
  /\ \/ /\ StoreOk
        /\ \E t \in proc[p].tokset :
             LET sessionData == Get(sess, t)
                 sessions == IF sessionData # <<>>
                             THEN Append(proc[p].acc, SessionMetadata(t, sessionData[1]))
                             ELSE proc[p].acc
                 skipped == IF sessionData # <<>> THEN proc[p].missing
                            ELSE proc[p].missing \cup {t}
             IN IF proc[p].tokset = {t}
                THEN FinishFrom(p, [proc[p] EXCEPT !.missing = skipped],
                                SortByLastUsedDesc(sessions), FALSE, FALSE)
                ELSE /\ proc' = [proc EXCEPT ![p].tokset = @ \ {t}, ![p].acc = sessions,
                                             ![p].missing = skipped]
                     /\ UNCHANGED <<issued, revoked>>
     \/ /\ StoreFails
        /\ Finish(p, <<>>, TRUE, TRUE)
  /\ chain' = IF proc'[p].op = "deleteSession" THEN Unchain({proc'[p].tok}) ELSE chain
  /\ UNCHANGED <<born, fresh, clock, config, sess, idx, idxTtl, used, last, mode, redisConnected, oauthState, validated, users, apiKeys, minted, touch>>


\* ------------------------------------------------------- API-key service
\* Strings are sequences of one-character strings.
LowerCase == <<"a", "b", "c", "d", "e", "f", "g", "h", "i", "j", "k", "l", "m",
               "n", "o", "p", "q", "r", "s", "t", "u", "v", "w", "x", "y", "z">>
UpperCase == <<"A", "B", "C", "D", "E", "F", "G", "H", "I", "J", "K", "L", "M",
               "N", "O", "P", "Q", "R", "S", "T", "U", "V", "W", "X", "Y", "Z">>
Digits == <<"0", "1", "2", "3", "4", "5", "6", "7", "8", "9">>
Alphabet == LowerCase \o UpperCase \o Digits \o <<"_", ".", "-", "@">>
Range(s) == {s[i] : i \in 1..Len(s)}
IsLower(c) == c \in Range(LowerCase)
IsHex(c) == c \in Range(Digits) \cup {"a", "b", "c", "d", "e", "f"}

toLowerCase(c) ==
  IF c \in Range(UpperCase)
  THEN LowerCase[CHOOSE i \in 1..Len(UpperCase) : UpperCase[i] = c]
  ELSE c

\* email.split('@')[0]
BeforeAt(email) ==
  LET ats == {i \in 1..Len(email) : email[i] = "@"}
  IN IF ats = {} THEN email
     ELSE SubSeq(email, 1, (CHOOSE i \in ats : \A j \in ats : i <= j) - 1)

\* Mutant: the prefix is not cut to twelve letters.
extractUsername_NoLimit(email) ==
  SelectSeq([i \in 1..Len(BeforeAt(email)) |-> toLowerCase(BeforeAt(email)[i])], IsLower)

\* username.toLowerCase().replace(/[^a-z]/g, '').substring(0, 12)
extractUsername(email) ==
  LET username == [i \in 1..Len(BeforeAt(email)) |-> toLowerCase(BeforeAt(email)[i])]
      cleanUsername == SelectSeq(username, IsLower)
  IN SubSeq(cleanUsername, 1,
            IF Len(cleanUsername) < NameMax THEN Len(cleanUsername) ELSE NameMax)

\* /^([a-z]{1,12}_)?[0-9a-f]{128}$/
API_KEY_REGEX(s) ==
  \/ Len(s) = HexLen /\ \A i \in 1..Len(s) : IsHex(s[i])
  \/ \E n \in 1..NameMax :
       /\ Len(s) = n + 1 + HexLen
       /\ \A i \in 1..n : IsLower(s[i])
       /\ s[n + 1] = "_"
       /\ \A i \in (n + 2)..Len(s) : IsHex(s[i])

\* The hex strings of the model: what randomBytes(64).toString('hex')
\* yielded for "r1", the same with its last character changed, one no
\* call yielded, and one that is a character short.
Hex(b) ==
  CASE b = "r1" -> [i \in 1..HexLen |-> IF i % 2 = 1 THEN "3" ELSE "f"]
    [] b = "r1x" -> [i \in 1..HexLen |-> IF i = HexLen THEN "e"
                                        ELSE IF i % 2 = 1 THEN "3" ELSE "f"]
    [] b = "rf" -> [i \in 1..HexLen |-> IF i % 3 = 1 THEN "0" ELSE "a"]
    [] OTHER -> [i \in 1..(HexLen - 1) |-> "0"]

\* One hex character of a key changed.
Tampered(k) == [k EXCEPT !.body = "r1x"]

\* `${username}_${tokenBody}`, or the token body alone.
KeyText(k) == IF Len(k.name) > 0 THEN k.name \o <<"_">> \o Hex(k.body) ELSE Hex(k.body)

\* The e-mail address in each user's row.
Email(u) ==
  IF u = "u1" THEN <<"A", "l", ".", "I", "c", "e", "9", "@", "x", ".", "i", "o">>
  ELSE <<"4", "2", "@", "x", ".", "i", "o">>

\* Every key of the model, with what the format check and the hash make of
\* its text.
KeyUniverse ==
  {[name |-> n, body |-> b] :
     n \in {extractUsername(Email(u)) : u \in Users} \cup {<<>>},
     b \in RandomHex \cup {"r1x", "rf", "short"}}

\* SHA-256 over the whole text, as a number: a polynomial digest, computed
\* by halves.
Code(c) == CHOOSE i \in 1..Len(Alphabet) : Alphabet[i] = c
RECURSIVE Pow31(_)
Pow31(n) ==
  IF n = 0 THEN 1
  ELSE IF n % 2 = 0 THEN (Pow31(n \div 2) * Pow31(n \div 2)) % DigestMod
  ELSE (31 * Pow31(n - 1)) % DigestMod
RECURSIVE Digest(_, _, _)
Digest(s, lo, hi) ==
  IF lo > hi THEN 0
  ELSE IF lo = hi THEN Code(s[lo])
  ELSE LET mid == (lo + hi) \div 2
       IN (Digest(s, lo, mid) * Pow31(hi - mid) + Digest(s, mid + 1, hi)) % DigestMod

FormatTable == {<<k, API_KEY_REGEX(KeyText(k))>> : k \in KeyUniverse}
DigestTable == {<<k, Digest(KeyText(k), 1, Len(KeyText(k)))>> : k \in KeyUniverse}

\* API_KEY_REGEX.test(apiKey)
validateApiKeyFormat(k) == (CHOOSE e \in FormatTable : e[1] = k)[2]

\* createHash('sha256').update(apiKey).digest('hex')
hashApiKey(k) == (CHOOSE e \in DigestTable : e[1] = k)[2]

\* randomBytes(64): a token body no earlier call has produced, behind the
\* username when there is one.
generateApiKey(username) ==
  {[name |-> username, body |-> b] : b \in RandomHex \ {k.body : k \in minted}}

\* Mutant: the lookup does not ask whether the owner is active.
FindFirst_AnyUser(keyHash) ==
  {k \in apiKeys : k.keyHash = keyHash /\ users[k.userId] # <<>>}

\* prisma.apiKey.findFirst({ where: { keyHash, user: { isActive: true } } })
FindFirst(keyHash) ==
  {k \in apiKeys : /\ k.keyHash = keyHash
                   /\ users[k.userId] # <<>>
                   /\ users[k.userId][1].isActive}

\* Mutant: a key is still good at the instant it expires.
KeyExpired_Strict(k, now) == k.expiresAt # NoExpiry /\ k.expiresAt < now

\* apiKeyRecord.expiresAt && apiKeyRecord.expiresAt <= new Date()
KeyExpired(k, now) == k.expiresAt # NoExpiry /\ k.expiresAt <= now

\* A row of the users table.
UserRow(r, a) == <<[roles |-> r, isActive |-> a]>>
DEFAULT_ROLE == "GUEST"

\* The principal a middleware attaches for user row u.
Principal(u) == <<[id |-> u, roles |-> users[u][1].roles,
                   isActive |-> users[u][1].isActive]>>

\* Mutant: the principal is built from the session record's snapshot.
SessionPrincipal_Snapshot(session) ==
  <<[id |-> session.uid, roles |-> session.roles, isActive |-> TRUE]>>

\* The principal of a session-authenticated request: the row found by
\* prisma.user.findUnique({ where: { id: session.uid } }).
SessionPrincipal(session) == Principal(session.uid)

\* Mutant: the current session may be deleted like any other.
deleteSessionHandler_AllowsCurrent(q) ==
  [q EXCEPT !.pc = "listUserSessions_sMembers", !.op = "listUserSessions",
            !.uid = q.reqUser[1].id, !.missing = {}]

\* deleteSessionHandler, up to its first await.  requireSession has set
\* req.user and req.sessionToken (the cookie), so the INTERNAL_ERROR branch
\* is not taken.
deleteSessionHandler(q) ==
  IF q.param = q.cookie
  THEN sendErrorResponse(q, "CANNOT_DELETE_CURRENT_SESSION",
         [LogEntry("Attempt to delete current session via delete endpoint") EXCEPT
            !.userId = q.reqUser[1].id, !.tokenIdHash = TokenIdHash[q.param]])
  ELSE [q EXCEPT !.pc = "listUserSessions_sMembers", !.op = "listUserSessions",
                 !.uid = q.reqUser[1].id, !.missing = {}]

\* listSessionsHandler, up to its first await.
listSessionsHandler(q) ==
  [q EXCEPT !.pc = "listUserSessions_sMembers", !.op = "listUserSessions",
            !.uid = q.reqUser[1].id, !.missing = {}]

\* next(): the route's remaining middlewares and its handler.
Handler(q) ==
  IF q.route = "GET /api-keys" THEN [q EXCEPT !.pc = "listUserApiKeys"]
  ELSE IF q.route = "POST /api-keys" THEN [q EXCEPT !.pc = "createApiKey_findUnique"]
  ELSE IF q.route = "GET /auth/sessions" THEN listSessionsHandler(q)
  ELSE IF q.route = "DELETE /auth/sessions/:id" THEN deleteSessionHandler(q)
  ELSE [q EXCEPT !.pc = "deleteApiKey"]

\* -------------------------------------------------------------- requests
\* Mutant: every API-key route accepts API keys.
Middleware_AllRequireAuth(route) == "requireAuth"

\* routes.ts: the authentication middleware of each route.
Middleware(route) == IF route = "GET /api-keys" THEN "requireAuth" ELSE "requireSession"

PresentableKeys == minted \cup {Tampered(k) : k \in minted} \cup {ForgedKey, Malformed}

\* A request arrives on a route guarded by middleware mw.
Request(mw) ==
  {[Idle EXCEPT !.mw = mw, !.op = "request", !.route = route, !.bearer = bearer,
                !.cookie = cookie, !.body = body, !.param = param] :
     route \in {r \in Routes : Middleware(r) = mw},
     bearer \in PresentableKeys \cup {NoKey},
     cookie \in Presentable \cup {NoToken},
     body \in {NoExpiry, clock + 1},
     param \in KeyIds}

\* The session-cookie path, up to the call of getSession.
SessionPath(q) ==
  LET r == [q EXCEPT !.cookieRead = TRUE]
  IN IF q.cookie = NoToken
     THEN sendErrorResponse(r, "AUTHENTICATION_REQUIRED",
            LogEntry(IF q.mw = "requireAuth" THEN "No authentication provided"
                     ELSE "No session token provided"))
     ELSE [r EXCEPT !.pc = "getSession_get", !.op = "getSession",
                    !.tok = q.cookie, !.after = (q.cookie \in revoked)]

requireSession(p) ==
  /\ CanStart(p)
  /\ \E q \in Request("requireSession") :
       /\ q.route # "POST /api-keys" => q.body = NoExpiry
       /\ q.route = "POST /api-keys" => generateApiKey(<<>>) # {}
       /\ proc' = [proc EXCEPT ![p] = SessionPath(q)]
  /\ UNCHANGED <<born, fresh, chain, clock, config, sess, idx, idxTtl, used, issued, revoked, last, mode, redisConnected, oauthState, validated, users, faults, apiKeys, minted, touch>>

\* A request arrives on one of the session routes; both are guarded by
\* requireSession.  The :id of a DELETE is any token a client can present.
SessionRequest ==
  {[Idle EXCEPT !.mw = "requireSession", !.op = "request", !.route = route,
                !.cookie = cookie, !.param = param] :
     route \in SessionRoutes,
     cookie \in Presentable \cup {NoToken},
     param \in Presentable \cup {NoToken}}

authRoutes(p) ==
  /\ CanStart(p)
  /\ \E q \in SessionRequest :
       /\ q.route = "GET /auth/sessions" <=> q.param = NoToken
       /\ proc' = [proc EXCEPT ![p] = SessionPath(q)]
  /\ UNCHANGED <<born, fresh, chain, clock, config, sess, idx, idxTtl, used, issued, revoked, last, mode, redisConnected, oauthState, validated, users, faults, apiKeys, minted, touch>>

\* Mutant: a bearer credential that fails validation falls back to the cookie.
BearerFailed_FallsBack(q) == SessionPath(q)

\* Mutant: an expired key is told apart from an unknown one.
BearerFailed_TellsExpired(q) ==
  IF \E k \in apiKeys : k.keyHash = hashApiKey(q.bearer) /\ KeyExpired(k, clock)
  THEN Responded(q, "TOKEN_EXPIRED")
  ELSE Responded(q, "INVALID_TOKEN")

\* requireAuth after validateApiKey returned null.
BearerFailed(q) == sendErrorResponse(q, "INVALID_TOKEN", LogEntry("Invalid API key provided"))

requireAuth(p) ==
  /\ CanStart(p)
  /\ \E q \in Request("requireAuth") :
       /\ q.body = NoExpiry
       /\ proc' = [proc EXCEPT ![p] =
            IF q.bearer # NoKey
            THEN IF validateApiKeyFormat(q.bearer)
                 THEN [q EXCEPT !.pc = "validateApiKey_findFirst"]
                 ELSE BearerFailed(Logged(q, {LogEntry("Invalid API key format")}))
            ELSE SessionPath(q)]
  /\ UNCHANGED <<born, fresh, chain, clock, config, sess, idx, idxTtl, used, issued, revoked, last, mode, redisConnected, oauthState, validated, users, faults, apiKeys, minted, touch>>

\* validateApiKey from the database lookup on, and requireAuth's use of the
\* result.  validateApiKey catches every error and returns null.
validateApiKey_findFirst(p) ==
  /\ proc[p].pc = "validateApiKey_findFirst"
  /\ \/ /\ StoreOk
        /\ LET found == FindFirst(hashApiKey(proc[p].bearer))
           IN IF found = {}
              THEN /\ proc' = [proc EXCEPT ![p] = BearerFailed(Logged(proc[p],
                        {[LogEntry("API key not found or user inactive") EXCEPT
                            !.keyFingerprint = KeyFingerprint(hashApiKey(proc[p].bearer))]}))]
                   /\ UNCHANGED touch
              ELSE \E k \in found :
                     IF KeyExpired(k, clock)
                     THEN /\ proc' = [proc EXCEPT ![p] = BearerFailed(Logged(proc[p],
                               {[LogEntry("API key expired") EXCEPT !.apiKeyId = k.id]}))]
                          /\ UNCHANGED touch
                     ELSE /\ proc' = [proc EXCEPT ![p] = Handler([Logged(proc[p],
                               {[LogEntry("API key validated successfully") EXCEPT
                                   !.userId = k.userId, !.apiKeyId = k.id],
                                [LogEntry("API key authentication successful") EXCEPT
                                   !.userId = k.userId, !.apiKeyId = k.id]}) EXCEPT
                                        !.reqUser = Principal(k.userId),
                                        !.reqApiKey = <<k.id>>])]
                          /\ touch' = touch \cup {k.id}
     \/ /\ StoreFails
        /\ proc' = [proc EXCEPT ![p] = BearerFailed(Logged([proc[p] EXCEPT !.storeErr = TRUE],
                        {LogEntry("API key validation error")}))]
        /\ UNCHANGED touch
  /\ UNCHANGED <<born, fresh, chain, clock, config, sess, idx, idxTtl, used, issued, revoked, last, mode, redisConnected, oauthState, validated, users, apiKeys, minted>>

\* Mutant: an inactive user is logged out like a missing one.
AfterFindUnique_DropsInactive(q) ==
  LET session == q.out[1]
  IN IF users[session.uid] = <<>> \/ ~users[session.uid][1].isActive
     THEN [q EXCEPT !.pc = "deleteSession_get", !.op = "deleteSession", !.inner = FALSE]
     ELSE Handler([q EXCEPT !.reqUser = SessionPrincipal(session),
                            !.reqSession = <<session>>])

\* requireAuth / requireSession resume after the user lookup returned.
AfterFindUnique(q) ==
  LET session == q.out[1]
  IN IF users[session.uid] = <<>>
     THEN [q EXCEPT !.pc = "deleteSession_get", !.op = "deleteSession", !.inner = FALSE]
     ELSE IF ~users[session.uid][1].isActive
     THEN sendErrorResponse(q, "USER_INACTIVE",
            [LogEntry("Inactive user attempted access") EXCEPT !.userId = session.uid])
     ELSE Handler([Logged(q, {[LogEntry(IF q.mw = "requireAuth"
                                        THEN "Session authentication successful"
                                        ELSE "Session validated successfully")
                                 EXCEPT !.userId = session.uid]}) EXCEPT
                     !.reqUser = SessionPrincipal(session),
                     !.reqSession = <<session>>])

\* The fresh user lookup of requireAuth / requireSession.
auth_findUnique(p) ==
  /\ proc[p].pc = "auth_findUnique"
  /\ \/ /\ StoreOk
        /\ proc' = [proc EXCEPT ![p] = AfterFindUnique(proc[p])]
     \/ /\ StoreFails
        /\ proc' = [proc EXCEPT ![p] = sendErrorResponse([proc[p] EXCEPT !.storeErr = TRUE],
                        "INTERNAL_ERROR",
                        LogEntry(IF proc[p].mw = "requireAuth" THEN "Authentication error"
                                 ELSE "Session validation error"))]
  /\ chain' = IF proc'[p].op = "deleteSession" THEN Unchain({proc[p].tok}) ELSE chain
  /\ UNCHANGED <<born, fresh, clock, config, sess, idx, idxTtl, used, issued, revoked, last, mode, redisConnected, oauthState, validated, users, apiKeys, minted, touch>>

\* -------------------------------------------------------------- handlers
ApiKeyMetadata(k) ==
  [id |-> k.id, expiresAt |-> k.expiresAt, lastUsedAt |-> k.lastUsedAt,
   keyFingerprint |-> KeyFingerprint(k.keyHash)]

\* The entries the service and then the handler write for user u, key id.
HandlerLog(u, id, serviceMsg, handlerMsg) ==
  {[LogEntry(m) EXCEPT !.userId = u, !.apiKeyId = id] : m \in {serviceMsg, handlerMsg}}

listUserApiKeys(p) ==
  /\ proc[p].pc = "listUserApiKeys"
  /\ \/ /\ StoreOk
        /\ proc' = [proc EXCEPT ![p] = Responded([Logged(proc[p],
                 HandlerLog(proc[p].reqUser[1].id, 0, "API keys listed via endpoint",
                            "API keys listed via endpoint")) EXCEPT
              !.out = <<{ApiKeyMetadata(k) : k \in {x \in apiKeys : x.userId = proc[p].reqUser[1].id}}>>],
              "OK")]
     \/ /\ StoreFails
        /\ proc' = [proc EXCEPT ![p] = Responded(Logged(proc[p],
                 HandlerLog(proc[p].reqUser[1].id, 0, "Failed to list user API keys",
                            "Failed to list API keys via endpoint")), "INTERNAL_ERROR")]
  /\ UNCHANGED <<born, fresh, chain, clock, config, sess, idx, idxTtl, used, issued, revoked, last, mode, redisConnected, oauthState, validated, users, apiKeys, minted, touch>>

\* createApiKey's catch block, then the handler's.
CreateFailed(q) ==
  Logged(q, HandlerLog(q.reqUser[1].id, 0, "Failed to create API key",
                       "Failed to create API key via endpoint"))

createApiKey_findUnique(p) ==
  /\ proc[p].pc = "createApiKey_findUnique"
  /\ \/ /\ StoreOk
        /\ LET userId == proc[p].reqUser[1].id
           IN IF users[userId] = <<>>
              THEN /\ proc' = [proc EXCEPT ![p] = Responded(CreateFailed(proc[p]), "INTERNAL_ERROR")]
                   /\ UNCHANGED minted
              ELSE IF ~users[userId][1].isActive
              THEN /\ proc' = [proc EXCEPT ![p] = Responded(CreateFailed(proc[p]), "ACCOUNT_DISABLED")]
                   /\ UNCHANGED minted
              ELSE \E k \in generateApiKey(extractUsername(Email(userId))) :
                     /\ proc' = [proc EXCEPT ![p].pc = "createApiKey_create",
                                             ![p].plaintext = k]
                     /\ minted' = minted \cup {k}
     \/ /\ StoreFails
        /\ proc' = [proc EXCEPT ![p] = Responded(CreateFailed(proc[p]), "INTERNAL_ERROR")]
        /\ UNCHANGED minted
  /\ UNCHANGED <<born, fresh, chain, clock, config, sess, idx, idxTtl, used, issued, revoked, last, mode, redisConnected, oauthState, validated, users, apiKeys, touch>>

\* prisma.apiKey.create({ data: { userId, name, keyHash, expiresAt } })
ApiKeyRecord(id, userId, plaintext, expiresAt) ==
  [id |-> id, userId |-> userId, keyHash |-> hashApiKey(plaintext),
   expiresAt |-> expiresAt, lastUsedAt |-> NoExpiry]

\* Mutant: the log shows the key where the hash's fingerprint belongs.
CreatedLog_Plain(u, id, plaintext) ==
  {[LogEntry("API key created") EXCEPT
      !.userId = u, !.apiKeyId = id, !.keyFingerprint = KeyText(plaintext)],
   [LogEntry("API key created via endpoint") EXCEPT !.userId = u, !.apiKeyId = id]}

\* logger.info('API key created', ...) in the service, then the handler's.
CreatedLog(u, id, plaintext) ==
  {[LogEntry("API key created") EXCEPT
      !.userId = u, !.apiKeyId = id,
      !.keyFingerprint = KeyFingerprint(hashApiKey(plaintext))],
   [LogEntry("API key created via endpoint") EXCEPT !.userId = u, !.apiKeyId = id]}

createApiKey_create(p) ==
  /\ proc[p].pc = "createApiKey_create"
  /\ \/ /\ StoreOk
        /\ \E id \in KeyIds \ {k.id : k \in apiKeys} :
             /\ apiKeys' = apiKeys \cup {ApiKeyRecord(id, proc[p].reqUser[1].id,
                                                     proc[p].plaintext, proc[p].body)}
             /\ proc' = [proc EXCEPT ![p] =
                  Responded([Logged(proc[p], CreatedLog(proc[p].reqUser[1].id, id, proc[p].plaintext))
                               EXCEPT !.out = <<proc[p].plaintext>>], "CREATED")]
     \/ /\ StoreFails
        /\ proc' = [proc EXCEPT ![p] = Responded(CreateFailed(proc[p]), "INTERNAL_ERROR")]
        /\ UNCHANGED apiKeys
  /\ UNCHANGED <<born, fresh, chain, clock, config, sess, idx, idxTtl, used, issued, revoked, last, mode, redisConnected, oauthState, validated, users, minted, touch>>

\* deleteApiKey's catch block, then the handler's.
DeleteFailed(q) ==
  Logged(q, HandlerLog(q.reqUser[1].id, q.param, "Failed to delete API key",
                       "Failed to delete API key via endpoint"))

\* Mutant: the delete does not ask whose key it is.
deleteApiKey_AnyOwner(p) ==
  /\ proc[p].pc = "deleteApiKey"
  /\ StoreOk
  /\ LET matching == {k \in apiKeys : k.id = proc[p].param}
     IN /\ apiKeys' = apiKeys \ matching
        /\ proc' = [proc EXCEPT ![p] =
             IF matching = {} THEN Responded(proc[p], "API_KEY_NOT_FOUND")
             ELSE Responded(proc[p], "OK")]
  /\ UNCHANGED <<born, fresh, chain, clock, config, sess, idx, idxTtl, used, issued, revoked, last, mode, redisConnected, oauthState, validated, users, minted, touch>>

deleteApiKey(p) ==
  /\ proc[p].pc = "deleteApiKey"
  /\ \/ /\ StoreOk
        /\ LET matching == {k \in apiKeys : k.id = proc[p].param
                                            /\ k.userId = proc[p].reqUser[1].id}
           IN /\ apiKeys' = apiKeys \ matching
              /\ proc' = [proc EXCEPT ![p] =
                   IF matching = {} THEN Responded(DeleteFailed(proc[p]), "API_KEY_NOT_FOUND")
                   ELSE Responded(Logged(proc[p],
                          HandlerLog(proc[p].reqUser[1].id, proc[p].param, "API key deleted",
                                     "API key deleted via endpoint")), "OK")]
     \/ /\ StoreFails
        /\ proc' = [proc EXCEPT ![p] = Responded(DeleteFailed(proc[p]), "INTERNAL_ERROR")]
        /\ UNCHANGED apiKeys
  /\ UNCHANGED <<born, fresh, chain, clock, config, sess, idx, idxTtl, used, issued, revoked, last, mode, redisConnected, oauthState, validated, users, minted, touch>>

\* Mutant: a failed write surfaces in the request that used the key.
updateLastUsed_Propagates ==
  /\ \E id \in touch :
       /\ touch' = touch \ {id}
       /\ \/ /\ StoreOk
             /\ apiKeys' = {IF k.id = id THEN [k EXCEPT !.lastUsedAt = clock] ELSE k : k \in apiKeys}
             /\ UNCHANGED proc
          \/ /\ StoreFails
             /\ UNCHANGED apiKeys
             /\ proc' = [p \in Procs |->
                    IF proc[p].reqApiKey = <<id>> /\ proc[p].pc \in {"listUserApiKeys"}
                    THEN Responded(proc[p], "INTERNAL_ERROR") ELSE proc[p]]
  /\ UNCHANGED <<born, fresh, chain, clock, config, sess, idx, idxTtl, used, issued, revoked, last, mode, redisConnected, oauthState, validated, users, minted>>

\* The un-awaited updateLastUsed(id) runs; a failure is swallowed.
updateLastUsed ==
  /\ \E id \in touch :
       /\ touch' = touch \ {id}
       /\ \/ /\ StoreOk
             /\ apiKeys' = {IF k.id = id THEN [k EXCEPT !.lastUsedAt = clock] ELSE k : k \in apiKeys}
          \/ /\ StoreFails
             /\ UNCHANGED apiKeys
  /\ UNCHANGED <<born, fresh, chain, clock, config, sess, idx, idxTtl, proc, used, issued, revoked, last, mode, redisConnected, oauthState, validated, users, minted>>

\* The periodic job runs beside the requests, on the highest free slot.
CanRun(p) ==
  /\ proc[p].pc = "idle"
  /\ \A q \in Procs : q > p => proc[q].pc # "idle"

\* The result of a cleanupExpiredApiKeys call that deleted n keys, or
\* failed.
CleanedUp(n, failed) ==
  Logged([Idle EXCEPT !.pc = "done", !.op = "cleanupExpiredApiKeys",
                      !.out = <<n>>, !.storeErr = failed],
         IF failed THEN {LogEntry("Failed to cleanup expired API keys")}
         ELSE IF n > 0 THEN {LogEntry("Expired API keys cleaned up")}
         ELSE {})

\* Mutant: deleteMany without the where clause.
cleanupExpiredApiKeys_DeletesAll(p) ==
  /\ CanRun(p)
  /\ StoreOk
  /\ apiKeys' = {}
  /\ proc' = [proc EXCEPT ![p] = CleanedUp(Cardinality(apiKeys), FALSE)]
  /\ UNCHANGED <<born, fresh, chain, clock, config, sess, idx, idxTtl, used, issued, revoked, last, mode, redisConnected, oauthState, validated, users, minted, touch>>

\* cleanupExpiredApiKeys(), whenever something calls it: one deleteMany of
\* the keys with expiresAt <= now, whose count is returned; a failure is
\* logged and 0 is returned.
cleanupExpiredApiKeys(p) ==
  /\ CanRun(p)
  /\ LET expired == {k \in apiKeys : KeyExpired(k, clock)}
     IN \/ /\ StoreOk
           /\ apiKeys' = apiKeys \ expired
           /\ proc' = [proc EXCEPT ![p] = CleanedUp(Cardinality(expired), FALSE)]
        \/ /\ StoreFails
           /\ proc' = [proc EXCEPT ![p] = CleanedUp(0, TRUE)]
           /\ UNCHANGED apiKeys
  /\ UNCHANGED <<born, fresh, chain, clock, config, sess, idx, idxTtl, used, issued, revoked, last, mode, redisConnected, oauthState, validated, users, minted, touch>>

\* ------------------------------------------------------- login handlers
\* The handler calls createSession(user.id, user.roles, ...), which draws
\* the token and reads the clock before its first await.
CallCreateSession(p, u, t) ==
  /\ proc' = [proc EXCEPT ![p] =
       [proc[p] EXCEPT !.pc = "createSession_setEx", !.op = "createSession",
                       !.tok = t, !.uid = u,
                       !.data = <<SessionPayload(u, clock)>>]]
  /\ used' = used \cup {t}
  /\ chain' = [chain EXCEPT ![t] = clock]
  /\ born' = [born EXCEPT ![t] = clock]

\* POST /auth/login with the e-mail address of u and a right or wrong
\* password.
loginHandler(p) ==
  /\ CanStart(p)
  /\ generateSessionToken # {}
  /\ \E u \in Users, pw \in BOOLEAN :
       proc' = [proc EXCEPT ![p] =
         [Idle EXCEPT !.pc = "verifyEmailPassword", !.op = "request",
                      !.mw = "loginHandler", !.uid = u, !.password = pw]]
  /\ UNCHANGED <<born, fresh, chain, clock, config, sess, idx, idxTtl, used, issued, revoked, last, mode, redisConnected, oauthState, validated, users, faults, apiKeys, minted, touch>>

\* authProviderService.verifyEmailPassword: null for an unknown or
\* inactive user, a wrong password, and when the lookup throws.
verifyEmailPassword(p) ==
  /\ proc[p].pc = "verifyEmailPassword"
  /\ LET u == proc[p].uid
         refused(msg) == sendErrorResponse(Logged(proc[p], {LogEntry(msg)}),
                           "INVALID_CREDENTIALS", LogEntry("Invalid login credentials"))
     IN \/ /\ StoreOk
           /\ proc' = [proc EXCEPT ![p] =
                IF users[u] = <<>> \/ ~users[u][1].isActive
                THEN refused("Login attempt for non-existent or inactive user")
                ELSE IF ~proc[p].password
                THEN refused("Invalid password attempt")
                ELSE [Logged(proc[p], {[LogEntry("Email/password authentication successful")
                                          EXCEPT !.userId = u]})
                        EXCEPT !.pc = "login_findUnique"]]
        \/ /\ StoreFails
           /\ proc' = [proc EXCEPT ![p] = refused("Email/password verification error")]
  /\ UNCHANGED <<born, fresh, chain, clock, config, sess, idx, idxTtl, used, issued, revoked, last, mode, redisConnected, oauthState, validated, users, apiKeys, minted, touch>>

\* loginHandler reads the user's row and creates the session.
login_findUnique(p) ==
  /\ proc[p].pc = "login_findUnique"
  /\ LET u == proc[p].uid
     IN \/ /\ StoreOk
           /\ IF users[u] = <<>>
              THEN /\ proc' = [proc EXCEPT ![p] = sendErrorResponse(proc[p], "INTERNAL_ERROR",
                          [LogEntry("User not found after authentication") EXCEPT !.userId = u])]
                   /\ UNCHANGED <<used, chain, born>>
              ELSE \E t \in generateSessionToken : CallCreateSession(p, u, t)
        \/ /\ StoreFails
           /\ proc' = [proc EXCEPT ![p] = HandlerFailed(proc[p])]
           /\ UNCHANGED <<used, chain, born>>
  /\ UNCHANGED <<fresh, clock, config, sess, idx, idxTtl, issued, revoked, last, mode, redisConnected, oauthState, validated, users, apiKeys, minted, touch>>

\* POST /auth/register with the e-mail address of u and a password that
\* is strong enough or not.
registerHandler(p) ==
  /\ CanStart(p)
  /\ generateSessionToken # {}
  /\ \E u \in Users, pw \in BOOLEAN :
       proc' = [proc EXCEPT ![p] =
         LET q == [Idle EXCEPT !.op = "request", !.mw = "registerHandler",
                               !.uid = u, !.password = pw]
         IN IF ~pw
            THEN sendErrorResponse(q, "VALIDATION_ERROR", LogEntry("Password validation failed"))
            ELSE [q EXCEPT !.pc = "register_findUnique"]]
  /\ UNCHANGED <<born, fresh, chain, clock, config, sess, idx, idxTtl, used, issued, revoked, last, mode, redisConnected, oauthState, validated, users, faults, apiKeys, minted, touch>>

register_findUnique(p) ==
  /\ proc[p].pc = "register_findUnique"
  /\ \/ /\ StoreOk
        /\ proc' = [proc EXCEPT ![p] =
             IF users[proc[p].uid] # <<>>
             THEN sendErrorResponse(proc[p], "VALIDATION_ERROR", LogEntry("User already exists"))
             ELSE [proc[p] EXCEPT !.pc = "register_create"]]
     \/ /\ StoreFails
        /\ proc' = [proc EXCEPT ![p] = HandlerFailed(proc[p])]
  /\ UNCHANGED <<born, fresh, chain, clock, config, sess, idx, idxTtl, used, issued, revoked, last, mode, redisConnected, oauthState, validated, users, apiKeys, minted, touch>>

\* prisma.user.create with roles [DEFAULT_ROLE]; a row created meanwhile
\* for the same address makes the create fail.
register_create(p) ==
  /\ proc[p].pc = "register_create"
  /\ \/ /\ StoreOk
        /\ IF users[proc[p].uid] = <<>>
           THEN /\ users' = [users EXCEPT ![proc[p].uid] = UserRow({DEFAULT_ROLE}, TRUE)]
                /\ proc' = [proc EXCEPT ![p].pc = "register_provider"]
           ELSE /\ proc' = [proc EXCEPT ![p] = HandlerFailed(proc[p])]
                /\ UNCHANGED users
     \/ /\ StoreFails
        /\ proc' = [proc EXCEPT ![p] = HandlerFailed(proc[p])]
        /\ UNCHANGED users
  /\ UNCHANGED <<born, fresh, chain, clock, config, sess, idx, idxTtl, used, issued, revoked, last, mode, redisConnected, oauthState, validated, apiKeys, minted, touch>>

\* authProviderService.createEmailPasswordProvider, then createSession.
register_provider(p) ==
  /\ proc[p].pc = "register_provider"
  /\ LET u == proc[p].uid
     IN \/ /\ StoreOk
           /\ \E t \in generateSessionToken : CallCreateSession(p, u, t)
        \/ /\ StoreFails
           /\ proc' = [proc EXCEPT ![p] = HandlerFailed(Logged(proc[p],
                         {[LogEntry("Failed to create email/password provider") EXCEPT !.userId = u]}))]
           /\ UNCHANGED <<used, chain, born>>
  /\ UNCHANGED <<fresh, clock, config, sess, idx, idxTtl, issued, revoked, last, mode, redisConnected, oauthState, validated, users, apiKeys, minted, touch>>

\* loginHandler / registerHandler: prisma.user.update({ lastLoginAt }),
\* after the session cookie was put on the response.
login_update(p) ==
  /\ proc[p].pc = "login_update"
  /\ \/ /\ StoreOk
        /\ proc' = [proc EXCEPT ![p] =
             IF proc[p].mw = "loginHandler"
             THEN Responded(Logged(proc[p], {[LogEntry("User logged in successfully")
                                               EXCEPT !.userId = proc[p].uid]}), "OK")
             ELSE Responded(Logged(proc[p], {[LogEntry("User registered successfully")
                                               EXCEPT !.userId = proc[p].uid]}), "CREATED")]
     \/ /\ StoreFails
        /\ proc' = [proc EXCEPT ![p] = HandlerFailed(proc[p])]
  /\ UNCHANGED <<born, fresh, chain, clock, config, sess, idx, idxTtl, used, issued, revoked, last, mode, redisConnected, oauthState, validated, users, apiKeys, minted, touch>>

\* GET /auth/google/callback for the Google account of u, whose code
\* exchange and profile fetch succeed or not.
googleCallbackHandler(p) ==
  /\ CanStart(p)
  /\ generateSessionToken # {}
  /\ \E u \in Users, ok \in BOOLEAN :
       proc' = [proc EXCEPT ![p] =
         LET q == [Idle EXCEPT !.op = "request", !.mw = "googleCallbackHandler",
                               !.uid = u, !.password = ok]
         IN IF ~ok
            THEN sendErrorResponse(Logged(q, {LogEntry("Google OAuth callback failed")}),
                                   "INVALID_STATE", LogEntry("Application error"))
            ELSE [q EXCEPT !.pc = "oauth_findUser"]]
  /\ UNCHANGED <<born, fresh, chain, clock, config, sess, idx, idxTtl, used, issued, revoked, last, mode, redisConnected, oauthState, validated, users, faults, apiKeys, minted, touch>>

\* prisma.user.findUnique({ where: { email } }), and prisma.user.create
\* with roles [DEFAULT_ROLE] when there is no such user (one step).
oauth_findUser(p) ==
  /\ proc[p].pc = "oauth_findUser"
  /\ LET u == proc[p].uid
         q == Logged(proc[p], {LogEntry("Google OAuth profile fetched")})
     IN \/ /\ StoreOk
           /\ IF users[u] = <<>>
              THEN /\ users' = [users EXCEPT ![u] = UserRow({DEFAULT_ROLE}, TRUE)]
                   /\ proc' = [proc EXCEPT ![p] =
                        [Logged(q, {[LogEntry("New user created via Google OAuth")
                                       EXCEPT !.userId = u]})
                           EXCEPT !.pc = "oauth_provider"]]
              ELSE /\ users' = users
                   /\ proc' = [proc EXCEPT ![p] = [q EXCEPT !.pc = "oauth_provider"]]
        \/ /\ StoreFails
           /\ proc' = [proc EXCEPT ![p] = HandlerFailed(q)]
           /\ UNCHANGED users
  /\ UNCHANGED <<born, fresh, chain, clock, config, sess, idx, idxTtl, used, issued, revoked, last, mode, redisConnected, oauthState, validated, apiKeys, minted, touch>>

\* The auth provider is found, created or updated, then createSession is
\* called.
oauth_provider(p) ==
  /\ proc[p].pc = "oauth_provider"
  /\ \/ /\ StoreOk
        /\ \E t \in generateSessionToken : CallCreateSession(p, proc[p].uid, t)
     \/ /\ StoreFails
        /\ proc' = [proc EXCEPT ![p] = HandlerFailed(proc[p])]
        /\ UNCHANGED <<used, chain, born>>
  /\ UNCHANGED <<fresh, clock, config, sess, idx, idxTtl, issued, revoked, last, mode, redisConnected, oauthState, validated, users, apiKeys, minted, touch>>

\* ------------------------------------------------------------------ rbac
Roles == {"ADMIN", "USER", "GUEST"}

\* Mutant: the hierarchy is upside down.
ROLE_HIERARCHY_Inverted ==
  [r \in Roles |-> IF r = "GUEST" THEN {"ADMIN", "USER", "GUEST"}
                   ELSE IF r = "USER" THEN {"ADMIN", "USER"}
                   ELSE {"ADMIN"}]

\* Higher roles include the permissions of lower roles.
ROLE_HIERARCHY ==
  [r \in Roles |-> IF r = "ADMIN" THEN {"ADMIN", "USER", "GUEST"}
                   ELSE IF r = "USER" THEN {"USER", "GUEST"}
                   ELSE {"GUEST"}]

\* allowedRoles.some(requiredRole => ...)
hasRequiredRole(userRoles, allowedRoles, hierarchical) ==
  \E requiredRole \in allowedRoles :
    IF hierarchical
    THEN \E userRole \in userRoles : requiredRole \in ROLE_HIERARCHY[userRole]
    ELSE requiredRole \in userRoles

\* A request on a route guarded by requireRoles(allowedRoles, options);
\* requireAuth, the first middleware of the pair, has attached the
\* principal of user u.
requireRoles(p) ==
  /\ CanStart(p)
  /\ \E u \in Users, allowed \in SUBSET Roles \ {{}}, h \in BOOLEAN :
       /\ users[u] # <<>>
       /\ proc' = [proc EXCEPT ![p] =
            [Idle EXCEPT !.pc = "requireRoles_check", !.op = "request",
                         !.mw = "requireRoles", !.reqUser = Principal(u),
                         !.allowedRoles = allowed, !.hierarchical = h]]
  /\ UNCHANGED <<born, fresh, chain, clock, config, sess, idx, idxTtl, used, issued, revoked, last, mode, redisConnected, oauthState, validated, users, faults, apiKeys, minted, touch>>

\* The second middleware of the pair.
requireRoles_check(p) ==
  /\ proc[p].pc = "requireRoles_check"
  /\ proc' = [proc EXCEPT ![p] =
       IF proc[p].reqUser = <<>>
       THEN Responded(proc[p], "INTERNAL_ERROR")
       ELSE IF ~hasRequiredRole(proc[p].reqUser[1].roles, proc[p].allowedRoles,
                                proc[p].hierarchical)
       THEN Responded(proc[p], "INSUFFICIENT_PERMISSIONS")
       ELSE Responded(proc[p], "NEXT")]
  /\ UNCHANGED <<born, fresh, chain, clock, config, sess, idx, idxTtl, used, issued, revoked, last, mode, redisConnected, oauthState, validated, users, faults, apiKeys, minted, touch>>

\* ------------------------------------------------------------ User Store
\* Administration changes a user's roles, toggles the active flag; a row
\* can also be removed from the database.
updateUserRoles ==
  /\ \E u \in Users, r \in {{"USER"}, {"ADMIN"}} :
       /\ users[u] # <<>>
       /\ users[u][1].roles # r
       /\ users' = [users EXCEPT ![u] = <<[@[1] EXCEPT !.roles = r]>>]
  /\ UNCHANGED <<born, fresh, chain, clock, config, sess, idx, idxTtl, proc, used, issued, revoked, last, mode, redisConnected, oauthState, validated, faults, apiKeys, minted, touch>>

updateUserStatus ==
  /\ \E u \in Users :
       /\ users[u] # <<>>
       /\ users' = [users EXCEPT ![u] = <<[@[1] EXCEPT !.isActive = ~@]>>]
  /\ UNCHANGED <<born, fresh, chain, clock, config, sess, idx, idxTtl, proc, used, issued, revoked, last, mode, redisConnected, oauthState, validated, faults, apiKeys, minted, touch>>

userRemoved ==
  /\ \E u \in Users :
       /\ users[u] # <<>>
       /\ users' = [users EXCEPT ![u] = <<>>]
       /\ apiKeys' = {k \in apiKeys : k.userId # u}
  /\ UNCHANGED <<born, fresh, chain, clock, config, sess, idx, idxTtl, proc, used, issued, revoked, last, mode, redisConnected, oauthState, validated, faults, minted, touch>>

\* ---------------------------------------------------------------- clock
\* ---------------------------------------------------------- OAuth state
\* crypto.randomBytes(32).toString('hex'): the states the model can draw,
\* and a made-up one.
OAuthStates == {"s1", "s2"}
ForgedState == "sf"
Providers == {"google", "slack", "github"}
NoVerifier == "undefined"
CodeVerifiers == {NoVerifier, "v1"}
\* redis.setEx(key, 600, value)
OAUTH_STATE_TTL == 600
NotGenerated == -1

\* JSON.stringify({ provider, codeVerifier, createdAt }): the members in
\* order; a member whose value is undefined is left out.
JSONstringify(provider, codeVerifier, createdAt) ==
  <<<<"provider", provider>>>>
  \o (IF codeVerifier = NoVerifier THEN <<>> ELSE <<<<"codeVerifier", codeVerifier>>>>)
  \o <<<<"createdAt", createdAt>>>>

\* JSON.parse(value): the object with the members of the text.
JSONparse(value) ==
  [k \in {value[i][1] : i \in DOMAIN value} |->
     value[CHOOSE i \in DOMAIN value : value[i][1] = k][2]]

\* States a client can present: the ones generateOAuthState has returned,
\* and made-up ones.
PresentableStates ==
  {st \in OAuthStates :
     /\ validated[st] # NotGenerated
     /\ \A p \in Procs : ~(proc[p].op = "generateOAuthState" /\ proc[p].state = st
                            /\ proc[p].pc # "done")}
  \cup {ForgedState}

\* await ensureRedisConnection(): connects the module's client unless the
\* flag says it is connected.
ensureRedisConnection(q) ==
  IF redisConnected
  THEN [q EXCEPT !.pc = IF q.op = "generateOAuthState" THEN "generateOAuthState_setEx"
                        ELSE "validateOAuthState_get"]
  ELSE [q EXCEPT !.pc = "redis_connect"]

\* redis.connect() resolves and the flag is set.  A connect() on a client
\* that another call is connecting or has connected may also reject; the
\* rejection leaves the call through its caller.
redis_connect(p) ==
  /\ proc[p].pc = "redis_connect"
  /\ \/ /\ redisConnected' = TRUE
        /\ proc' = [proc EXCEPT ![p] =
               Logged([proc[p] EXCEPT !.pc = IF proc[p].op = "generateOAuthState"
                                            THEN "generateOAuthState_setEx"
                                            ELSE "validateOAuthState_get"],
                      {LogEntry("OAuth Redis client connected")})]
     \/ /\ redisConnected \/ \E q \in Procs \ {p} : proc[q].pc = "redis_connect"
        /\ proc' = [proc EXCEPT ![p] = [proc[p] EXCEPT !.pc = "done", !.err = TRUE]]
        /\ UNCHANGED redisConnected
  /\ UNCHANGED <<born, fresh, chain, clock, config, sess, idx, idxTtl, used, issued, revoked, last, mode, oauthState, validated, users, faults, apiKeys, minted, touch>>

\* generateOAuthState(provider, codeVerifier).  Which value randomBytes
\* draws does not depend on when it is drawn, so the model draws it when
\* the call starts: any state no earlier call has drawn.
generateOAuthState(p) ==
  /\ CanStart(p)
  /\ \E provider \in Providers, codeVerifier \in CodeVerifiers :
       \E st \in OAuthStates :
         /\ validated[st] = NotGenerated
         /\ validated' = [validated EXCEPT ![st] = 0]
         /\ proc' = [proc EXCEPT ![p] = ensureRedisConnection(
                [Idle EXCEPT !.op = "generateOAuthState", !.state = st,
                             !.data = <<[provider |-> provider,
                                         codeVerifier |-> codeVerifier]>>])]
  /\ UNCHANGED <<born, fresh, chain, clock, config, sess, idx, idxTtl, used, issued, revoked, last, mode, redisConnected, oauthState, users, faults, apiKeys, minted, touch>>

generateOAuthState_setEx(p) ==
  /\ proc[p].pc = "generateOAuthState_setEx"
  /\ \/ /\ StoreOk
        /\ oauthState' = SetEx(oauthState, proc[p].state, OAUTH_STATE_TTL,
                               JSONstringify(proc[p].data[1].provider,
                                             proc[p].data[1].codeVerifier, clock))
        /\ proc' = [proc EXCEPT ![p] =
               Logged([proc[p] EXCEPT !.pc = "done", !.out = <<proc[p].state>>],
                      {LogEntry("OAuth state generated")})]
     \/ /\ StoreFails
        /\ proc' = [proc EXCEPT ![p] = [proc[p] EXCEPT !.pc = "done", !.err = TRUE,
                                                       !.storeErr = TRUE]]
        /\ UNCHANGED oauthState
  /\ UNCHANGED <<born, fresh, chain, clock, config, sess, idx, idxTtl, used, issued, revoked, last, mode, redisConnected, validated, users, apiKeys, minted, touch>>

\* validateOAuthState(state)
validateOAuthState(p) ==
  /\ CanStart(p)
  /\ \E st \in PresentableStates :
       proc' = [proc EXCEPT ![p] = ensureRedisConnection(
            [Idle EXCEPT !.op = "validateOAuthState", !.state = st])]
  /\ UNCHANGED <<born, fresh, chain, clock, config, sess, idx, idxTtl, used, issued, revoked, last, mode, redisConnected, oauthState, validated, users, faults, apiKeys, minted, touch>>

\* const value = await redis.get(key); if (!value) return null
validateOAuthState_get(p) ==
  /\ proc[p].pc = "validateOAuthState_get"
  /\ \/ /\ StoreOk
        /\ LET value == Get(oauthState, proc[p].state)
           IN proc' = [proc EXCEPT ![p] =
                IF value = <<>>
                THEN Logged([proc[p] EXCEPT !.pc = "done", !.out = <<>>],
                            {LogEntry("OAuth state validation failed: not found")})
                ELSE [proc[p] EXCEPT !.pc = "validateOAuthState_del", !.data = value]]
     \/ /\ StoreFails
        /\ proc' = [proc EXCEPT ![p] = [proc[p] EXCEPT !.pc = "done", !.err = TRUE,
                                                       !.storeErr = TRUE]]
  /\ UNCHANGED <<born, fresh, chain, clock, config, sess, idx, idxTtl, used, issued, revoked, last, mode, redisConnected, oauthState, validated, users, apiKeys, minted, touch>>

\* await redis.del(key); return JSON.parse(value).  The value was written
\* by JSON.stringify, so the parse does not throw.
validateOAuthState_del(p) ==
  /\ proc[p].pc = "validateOAuthState_del"
  /\ \/ /\ StoreOk
        /\ oauthState' = [oauthState EXCEPT ![proc[p].state] = <<>>]
        /\ proc' = [proc EXCEPT ![p] =
               Logged([proc[p] EXCEPT !.pc = "done",
                                      !.out = <<JSONparse(proc[p].data[1])>>],
                      {LogEntry("OAuth state validated")})]
        /\ validated' = [validated EXCEPT ![proc[p].state] = @ + 1]
     \/ /\ StoreFails
        /\ proc' = [proc EXCEPT ![p] = [proc[p] EXCEPT !.pc = "done", !.err = TRUE,
                                                       !.storeErr = TRUE]]
        /\ UNCHANGED <<oauthState, validated>>
  /\ UNCHANGED <<born, fresh, chain, clock, config, sess, idx, idxTtl, used, issued, revoked, last, mode, redisConnected, users, apiKeys, minted, touch>>

Tick ==
  /\ clock < MaxClock
  /\ clock' = clock + 1
  /\ sess' = ExpireSess(sess, clock + 1)
  /\ idx' = ExpireIdx(idx, idxTtl, clock + 1)
  /\ idxTtl' = ExpireIdxTtl(idxTtl, clock + 1)
  /\ chain' = Unchain({t \in AllTokens : chain[t] # NoTime /\ clock + 1 - chain[t] > MaxGap})
  /\ born' = [t \in AllTokens |->
                IF born[t] # NoTime /\ clock + 1 >= born[t] + config.SESSION_TTL_SECONDS
                THEN NoTime ELSE born[t]]
  /\ oauthState' = [st \in DOMAIN oauthState |->
                      IF oauthState[st] # <<>> /\ Expired(oauthState[st][1].ttl, clock + 1)
                      THEN <<>> ELSE oauthState[st]]
  /\ UNCHANGED <<fresh, config, proc, used, issued, revoked, last, mode, redisConnected, validated, users, faults, apiKeys, minted, touch>>

\* ------------------------------------------------------------------ spec
InitEmpty ==
  /\ clock = 0
  /\ config \in [SESSION_TTL_SECONDS : TtlValues,
                 SESSION_SLIDING_EXTENSION_SECONDS : ThresholdValues]
  /\ sess = [t \in AllTokens |-> <<>>]
  /\ idx = [u \in Users |-> {}]
  /\ idxTtl = [u \in Users |-> NoTtl]
  /\ proc = [p \in Procs |-> Idle]
  /\ issued = [u \in Users |-> {}]
  /\ revoked = {}
  /\ last = NoUser
  /\ minted = {}
  /\ touch = {}
  /\ chain = [t \in AllTokens |-> NoTime]
  /\ fresh = <<>>
  /\ born = [t \in AllTokens |-> NoTime]
  /\ redisConnected = FALSE
  /\ oauthState = [st \in OAuthStates \cup {ForgedState} |-> <<>>]
  /\ validated = [st \in OAuthStates |-> NotGenerated]

InitStore == InitEmpty /\ apiKeys = {}

AllUsers == [u \in Users |-> UserRow({"USER"}, TRUE)]
OneUser == [u \in Users |-> IF u = "u1" THEN UserRow({"USER"}, TRUE) ELSE <<>>]

\* One call at a time, reliable store.
Init == InitStore /\ mode = 1 /\ faults = 0 /\ users = AllUsers /\ used = {}

Next ==
  \/ Tick
  \/ \E p \in Procs : createSession(p)
  \/ \E p \in Procs : createSession_setEx(p)
  \/ \E p \in Procs : createSession_sAdd(p)
  \/ \E p \in Procs : createSession_expire(p)
  \/ \E p \in Procs : getSession(p)
  \/ \E p \in Procs : getSession_get(p)
  \/ \E p \in Procs : getSession_check(p)
  \/ \E p \in Procs : getSession_setEx(p)
  \/ \E p \in Procs : deleteSession(p)
  \/ \E p \in Procs : deleteSession_get(p)
  \/ \E p \in Procs : deleteSession_sRem(p)
  \/ \E p \in Procs : deleteSession_del(p)
  \/ \E p \in Procs : deleteAllUserSessions(p)
  \/ \E p \in Procs : deleteAllUserSessions_sMembers(p)
  \/ \E p \in Procs : deleteAllUserSessions_del(p)
  \/ \E p \in Procs : deleteAllUserSessions_delIndex(p)
  \/ \E p \in Procs : listUserSessions(p)
  \/ \E p \in Procs : listUserSessions_sMembers(p)
  \/ \E p \in Procs : listUserSessions_get(p)
  \/ \E p \in Procs : Return(p)

Spec == Init /\ [][Next]_vars

\* Two calls in flight, reliable store, one registered user, and a token
\* generator with one token left in the modelled range.
InitConc == InitStore /\ mode = 2 /\ faults = 0 /\ users = OneUser /\ used = {1}
SpecConc == InitConc /\ [][Next]_vars

\* Logins beside a logout-all: createSession and deleteAllUserSessions,
\* two calls in flight, reliable store, the longest session lifetime.
InitOverlap ==
  /\ InitStore /\ mode = 2 /\ faults = 0 /\ users = OneUser /\ used = {}
  /\ config.SESSION_TTL_SECONDS = MaxTtl
  /\ config.SESSION_SLIDING_EXTENSION_SECONDS = MaxThreshold

NextOverlap ==
  \/ Tick
  \/ \E p \in Procs : createSession(p)
  \/ \E p \in Procs : createSession_setEx(p)
  \/ \E p \in Procs : createSession_sAdd(p)
  \/ \E p \in Procs : createSession_expire(p)
  \/ \E p \in Procs : deleteAllUserSessions(p)
  \/ \E p \in Procs : deleteAllUserSessions_sMembers(p)
  \/ \E p \in Procs : deleteAllUserSessions_del(p)
  \/ \E p \in Procs : deleteAllUserSessions_delIndex(p)
  \/ \E p \in Procs : Return(p)

SpecOverlap == InitOverlap /\ [][NextOverlap]_vars

\* One call at a time; the store may reject up to MaxFaults commands.
InitFault == InitStore /\ mode = 1 /\ faults = MaxFaults /\ users = AllUsers /\ used = {}
SpecFault == InitFault /\ [][Next]_vars

\* Requests through the middlewares, one at a time; logins create sessions.
InitAuth == InitStore /\ mode = 1 /\ faults = MaxFaults /\ users = OneUser /\ used = {1}

NextAuth ==
  \/ Tick
  \/ \E p \in Procs : createSession(p)
  \/ \E p \in Procs : createSession_setEx(p)
  \/ \E p \in Procs : createSession_sAdd(p)
  \/ \E p \in Procs : createSession_expire(p)
  \/ \E p \in Procs : requireAuth(p)
  \/ \E p \in Procs : requireSession(p)
  \/ \E p \in Procs : validateApiKey_findFirst(p)
  \/ \E p \in Procs : getSession_get(p)
  \/ \E p \in Procs : getSession_check(p)
  \/ \E p \in Procs : getSession_setEx(p)
  \/ \E p \in Procs : auth_findUnique(p)
  \/ \E p \in Procs : deleteSession_get(p)
  \/ \E p \in Procs : deleteSession_sRem(p)
  \/ \E p \in Procs : deleteSession_del(p)
  \/ \E p \in Procs : listUserApiKeys(p)
  \/ \E p \in Procs : createApiKey_findUnique(p)
  \/ \E p \in Procs : createApiKey_create(p)
  \/ \E p \in Procs : deleteApiKey(p)
  \/ \E p \in Procs : Return(p)
  \/ updateLastUsed
  \/ \E p \in Procs : (\E k \in apiKeys : KeyExpired(k, clock)) /\ cleanupExpiredApiKeys(p)
  \/ updateUserRoles
  \/ updateUserStatus
  \/ userRemoved

SpecAuth == InitAuth /\ [][NextAuth]_vars

\* Two users manage API keys under session authentication: requests one at
\* a time, reliable store, the longest session lifetime and threshold.
InitKeys ==
  /\ InitStore /\ mode = 1 /\ faults = 0 /\ users = AllUsers /\ used = {}
  /\ config.SESSION_TTL_SECONDS = MaxTtl
  /\ config.SESSION_SLIDING_EXTENSION_SECONDS = MaxThreshold

NextKeys ==
  \/ Tick
  \/ \E p \in Procs : createSession(p)
  \/ \E p \in Procs : createSession_setEx(p)
  \/ \E p \in Procs : createSession_sAdd(p)
  \/ \E p \in Procs : createSession_expire(p)
  \/ \E p \in Procs : requireSession(p)
  \/ \E p \in Procs : getSession_get(p)
  \/ \E p \in Procs : getSession_check(p)
  \/ \E p \in Procs : getSession_setEx(p)
  \/ \E p \in Procs : auth_findUnique(p)
  \/ \E p \in Procs : deleteSession_get(p)
  \/ \E p \in Procs : deleteSession_sRem(p)
  \/ \E p \in Procs : deleteSession_del(p)
  \/ \E p \in Procs : createApiKey_findUnique(p)
  \/ \E p \in Procs : createApiKey_create(p)
  \/ \E p \in Procs : deleteApiKey(p)
  \/ \E p \in Procs : Return(p)

SpecKeys == InitKeys /\ [][NextKeys]_vars

\* Two users list and delete their sessions over the session routes:
\* requests one at a time, reliable store, the longest session lifetime
\* and threshold.
NextSessions ==
  \/ Tick
  \/ \E p \in Procs : createSession(p)
  \/ \E p \in Procs : createSession_setEx(p)
  \/ \E p \in Procs : createSession_sAdd(p)
  \/ \E p \in Procs : createSession_expire(p)
  \/ \E p \in Procs : authRoutes(p)
  \/ \E p \in Procs : getSession_get(p)
  \/ \E p \in Procs : getSession_check(p)
  \/ \E p \in Procs : getSession_setEx(p)
  \/ \E p \in Procs : auth_findUnique(p)
  \/ \E p \in Procs : listUserSessions_sMembers(p)
  \/ \E p \in Procs : listUserSessions_get(p)
  \/ \E p \in Procs : deleteSession_get(p)
  \/ \E p \in Procs : deleteSession_sRem(p)
  \/ \E p \in Procs : deleteSession_del(p)
  \/ \E p \in Procs : Return(p)

SpecSessions == InitKeys /\ [][NextSessions]_vars

\* OAuth states are generated and validated by two calls at a time, with a
\* reliable store.
InitOAuth ==
  /\ InitStore /\ mode = 2 /\ faults = 0 /\ users = OneUser /\ used = {}
  /\ config.SESSION_TTL_SECONDS = MaxTtl
  /\ config.SESSION_SLIDING_EXTENSION_SECONDS = MaxThreshold

NextOAuth ==
  \/ Tick
  \/ \E p \in Procs : generateOAuthState(p)
  \/ \E p \in Procs : generateOAuthState_setEx(p)
  \/ \E p \in Procs : validateOAuthState(p)
  \/ \E p \in Procs : redis_connect(p)
  \/ \E p \in Procs : validateOAuthState_get(p)
  \/ \E p \in Procs : validateOAuthState_del(p)
  \/ \E p \in Procs : Return(p)

SpecOAuth == InitOAuth /\ [][NextOAuth]_vars

\* Requests on role-guarded routes, one at a time; the users hold any
\* non-empty set of roles.
InitRbac ==
  /\ InitStore /\ mode = 1 /\ faults = 0 /\ used = {}
  /\ config.SESSION_TTL_SECONDS = MaxTtl
  /\ config.SESSION_SLIDING_EXTENSION_SECONDS = MaxThreshold
  /\ users \in [Users -> {UserRow(r, TRUE) : r \in SUBSET Roles \ {{}}}]

NextRbac ==
  \/ \E p \in Procs : requireRoles(p)
  \/ \E p \in Procs : requireRoles_check(p)
  \/ \E p \in Procs : Return(p)

SpecRbac == InitRbac /\ [][NextRbac]_vars

\* The periodic cleanup over a table of API keys: up to three rows, one
\* per user name prefix, each without expiry or expiring at some time.
StoredKeys ==
  <<[name |-> <<>>, body |-> "r1"],
    [name |-> extractUsername(Email("u1")), body |-> "r1"],
    [name |-> extractUsername(Email("u2")), body |-> "r1"]>>

Tables ==
  {{ApiKeyRecord(i, IF i = 3 THEN "u2" ELSE "u1", StoredKeys[i], e[i]) : i \in DOMAIN e} :
     e \in UNION {[R -> {NoExpiry} \cup 1..MaxClock] : R \in SUBSET (1..Len(StoredKeys))}}

InitCleanup ==
  /\ InitEmpty /\ mode = 1 /\ faults = MaxFaults /\ users = AllUsers /\ used = {}
  /\ config.SESSION_TTL_SECONDS = MaxTtl
  /\ config.SESSION_SLIDING_EXTENSION_SECONDS = MaxThreshold
  /\ apiKeys \in Tables

NextCleanup ==
  \/ Tick
  \/ \E p \in Procs : cleanupExpiredApiKeys(p)
  \/ \E p \in Procs : Return(p)

SpecCleanup == InitCleanup /\ [][NextCleanup]_vars

\* Logins, registrations and OAuth callbacks, one at a time, and reads of
\* the sessions they created; the stores may reject up to MaxFaults
\* commands.
InitLogin == InitStore /\ mode = 1 /\ faults = MaxFaults /\ users = OneUser /\ used = {}

NextLogin ==
  \/ Tick
  \/ \E p \in Procs : loginHandler(p)
  \/ \E p \in Procs : verifyEmailPassword(p)
  \/ \E p \in Procs : login_findUnique(p)
  \/ \E p \in Procs : registerHandler(p)
  \/ \E p \in Procs : register_findUnique(p)
  \/ \E p \in Procs : register_create(p)
  \/ \E p \in Procs : register_provider(p)
  \/ \E p \in Procs : googleCallbackHandler(p)
  \/ \E p \in Procs : oauth_findUser(p)
  \/ \E p \in Procs : oauth_provider(p)
  \/ \E p \in Procs : createSession_setEx(p)
  \/ \E p \in Procs : createSession_sAdd(p)
  \/ \E p \in Procs : createSession_expire(p)
  \/ \E p \in Procs : getSession(p)
  \/ \E p \in Procs : getSession_get(p)
  \/ \E p \in Procs : getSession_check(p)
  \/ \E p \in Procs : getSession_setEx(p)
  \/ \E p \in Procs : deleteSession_get(p)
  \/ \E p \in Procs : deleteSession_sRem(p)
  \/ \E p \in Procs : deleteSession_del(p)
  \/ \E p \in Procs : login_update(p)
  \/ \E p \in Procs : Return(p)

SpecLogin == InitLogin /\ [][NextLogin]_vars

\* ============================================================ properties
Done(p, o) == proc[p].pc = "done" /\ proc[p].op = o
TTL == config.SESSION_TTL_SECONDS

\* The session getSession read was valid at `now`, and the sliding
\* threshold had / had not elapsed.
ReadValid(q) == q.read # <<>> /\ q.read[1].exp > q.now
ReadDue(q) == ReadValid(q) /\ q.now - q.read[1].lastUsedAt >= config.SESSION_SLIDING_EXTENSION_SECONDS

\* C1: once deleteSession(t) has completed, every getSession(t) that starts
\* afterwards returns none, whatever other calls on t are still in flight
\* (including a getSession(t) that read the record before the delete and
\* rewrites it after).
C1_RevokedStaysRevoked ==
  \A p \in Procs : Done(p, "getSession") /\ proc[p].after => proc[p].out = <<>>

\* C2: after deleteAllUserSessions(u) has completed without error, getSession
\* returns none for every token createSession(u, ...) ever returned.
C2_DeleteAllRevokesAll ==
  \A p \in Procs :
    Done(p, "getSession") /\ last # NoUser /\ proc[p].tok \in issued[last]
      => proc[p].out = <<>>

\* C7: with one call at a time, after deleteSession(t) has completed
\* getSession(t) returns none and listUserSessions has no entry for t.
C7_DeletedIsUnfindable ==
  \A p \in Procs :
    /\ Done(p, "getSession") /\ proc[p].after => proc[p].out = <<>>
    /\ Done(p, "listUserSessions") /\ ~proc[p].err =>
         \A i \in 1..Len(proc[p].out) : proc[p].out[i].tokenId \notin revoked

C7_Witness ==
  \E p \in Procs :
    /\ Done(p, "getSession") /\ proc[p].after /\ proc[p].out = <<>>
    /\ proc[p].tok \in UNION {issued[u] : u \in Users}

\* C8: listUserSessions(u) right after a completed deleteAllUserSessions(u)
\* returns the empty sequence, whatever u's index held before.
C8_ListAfterDeleteAllEmpty ==
  \A p \in Procs :
    Done(p, "listUserSessions") /\ ~proc[p].err /\ last = proc[p].uid
      => proc[p].out = <<>>

C8_Witness ==
  \E p \in Procs :
    /\ Done(p, "listUserSessions") /\ ~proc[p].err /\ last = proc[p].uid
    /\ Cardinality(issued[proc[p].uid]) = 2

\* C9: a getSession that reads a valid session with
\* now - lastUsedAt >= threshold returns the record with lastUsedAt = now
\* and expiresAt = now + TTL, having rewritten it with a store TTL of TTL;
\* the new expiresAt is strictly larger than the one it read.
C9_Step(p) ==
  /\ ( /\ proc[p].pc = "getSession_check" /\ proc'[p] # proc[p]
       /\ proc[p].data # <<>>
       /\ proc[p].data[1].exp > clock
       /\ clock - proc[p].data[1].lastUsedAt >= config.SESSION_SLIDING_EXTENSION_SECONDS )
       => /\ proc'[p].pc = "getSession_setEx"
          /\ proc'[p].read = proc[p].data
          /\ proc'[p].now = clock
  /\ proc[p].pc = "getSession_setEx" /\ proc'[p] # proc[p]
       => /\ proc'[p].pc = "done"
          /\ proc'[p].out # <<>>
          /\ proc'[p].out[1] = [proc[p].read[1] EXCEPT !.lastUsedAt = proc[p].now,
                                                       !.exp = proc[p].now + TTL]
          /\ sess'[proc[p].tok] = <<[val |-> proc'[p].out[1], ttl |-> clock + TTL]>>
          /\ proc'[p].out[1].exp > proc[p].read[1].exp

C9_SlidingRenewal == [][\A p \in Procs : C9_Step(p)]_vars

C9_Witness ==
  \E p \in Procs :
    /\ Done(p, "getSession") /\ ReadDue(proc[p])
    /\ proc[p].out # proc[p].read

\* C10: a getSession on a valid session with now - lastUsedAt < threshold
\* writes nothing: it returns the record as read, and the record, its store
\* TTL and the index are left as they were.
C10_Step(p) ==
  /\ proc[p].pc = "getSession_get" /\ proc'[p] # proc[p]
       => sess' = sess /\ idx' = idx /\ idxTtl' = idxTtl
  /\ ( /\ proc[p].pc = "getSession_check" /\ proc'[p] # proc[p]
       /\ proc[p].data # <<>>
       /\ proc[p].data[1].exp > clock
       /\ clock - proc[p].data[1].lastUsedAt < config.SESSION_SLIDING_EXTENSION_SECONDS )
       => /\ proc'[p].pc = "done"
          /\ proc'[p].out = proc[p].data
          /\ sess' = sess /\ idx' = idx /\ idxTtl' = idxTtl
          /\ sess[proc[p].tok] # <<>>
          /\ sess[proc[p].tok][1].val = proc[p].data[1]

C10_ReadInWindowWritesNothing == [][\A p \in Procs : C10_Step(p)]_vars

C10_Witness ==
  \E p \in Procs :
    /\ Done(p, "getSession") /\ ReadValid(proc[p]) /\ ~ReadDue(proc[p])
    /\ proc[p].out = proc[p].read
    /\ proc[p].now > proc[p].read[1].createdAt

\* C3: the principal attached for a session-authenticated request carries
\* the roles and the active flag of the User Store row read in that
\* request, not the roles stored in the session record.
C3_Step(p) ==
  ( /\ proc[p].pc = "auth_findUnique"
    /\ proc'[p].reqUser # <<>> )
    => /\ proc'[p].reqSession = proc[p].out
       /\ users[proc[p].out[1].uid] # <<>>
       /\ proc'[p].reqUser[1].id = proc[p].out[1].uid
       /\ proc'[p].reqUser[1].roles = users[proc[p].out[1].uid][1].roles
       /\ proc'[p].reqUser[1].isActive = users[proc[p].out[1].uid][1].isActive

C3_PrincipalIsLiveUser == [][\A p \in Procs : C3_Step(p)]_vars

C3_Witness ==
  \E p \in Procs :
    /\ proc[p].reqUser # <<>> /\ proc[p].reqSession # <<>>
    /\ proc[p].reqUser[1].roles # proc[p].reqSession[1].roles

\* C4: a requireAuth request with a Bearer header is decided by API-key
\* validation alone: the session cookie is never read, and when validation
\* fails the response is INVALID_TOKEN with no principal attached.
C4_BearerIsExclusive ==
  \A p \in Procs :
    proc[p].mw = "requireAuth" /\ proc[p].bearer # NoKey =>
      /\ ~proc[p].cookieRead
      /\ proc[p].op = "request"
      /\ proc[p].reqSession = <<>>
      /\ ~proc[p].cookieCleared
      /\ proc[p].pc = "done" /\ proc[p].reqApiKey = <<>> =>
           proc[p].resp = "INVALID_TOKEN" /\ proc[p].reqUser = <<>>

C4_Witness ==
  \E p \in Procs :
    /\ proc[p].mw = "requireAuth" /\ proc[p].bearer # NoKey
    /\ proc[p].pc = "done" /\ proc[p].resp = "INVALID_TOKEN"
    /\ proc[p].cookie # NoToken
    /\ sess[proc[p].cookie] # <<>>
    /\ sess[proc[p].cookie][1].val.exp > clock
    /\ users[sess[proc[p].cookie][1].val.uid] # <<>>
    /\ users[sess[proc[p].cookie][1].val.uid][1].isActive

\* C5: the handlers of POST /api-keys and DELETE /api-keys/:id run only for
\* session-authenticated requests, and a request adds or removes an API-key
\* record only when it was authenticated by its session cookie.  (The
\* cleanup job is no request: it removes expired keys on its own.)
KeyHandlerPcs == {"createApiKey_findUnique", "createApiKey_create", "deleteApiKey"}
KeyIdsStored(keys) == {k.id : k \in keys}

C5_Step(p) ==
  /\ proc'[p].pc \in KeyHandlerPcs =>
       proc'[p].reqSession # <<>> /\ proc'[p].reqApiKey = <<>>
  /\ proc[p].mw # "none" /\ proc'[p] # proc[p]
     /\ KeyIdsStored(apiKeys') # KeyIdsStored(apiKeys) =>
       /\ proc[p].reqSession # <<>>
       /\ proc[p].reqApiKey = <<>>
       /\ proc[p].cookieRead

C5_KeysOnlyUnderSession == [][\A p \in Procs : C5_Step(p)]_vars

C5_Witness ==
  \E p \in Procs :
    /\ proc[p].pc = "done"
    /\ proc[p].route \in {"POST /api-keys", "DELETE /api-keys/:id"}
    /\ proc[p].bearer \in minted
    /\ \E k \in FindFirst(hashApiKey(proc[p].bearer)) : ~KeyExpired(k, clock)
    /\ proc[p].reqSession = <<>>
    /\ proc[p].resp \in {"AUTHENTICATION_REQUIRED", "INVALID_TOKEN"}

\* C6: when the Credential Store is unreachable while the authenticator
\* reads a session (here: one whose record exists), the request ends in an
\* internal error, not INVALID_TOKEN, and the session cookie is not cleared.
C6_StoreFailureIsInternalError ==
  \A p \in Procs :
    ( /\ proc[p].pc = "done" /\ proc[p].mw # "none"
      /\ proc[p].op = "getSession" /\ proc[p].storeErr
      /\ sess[proc[p].tok] # <<>> )
      => proc[p].resp = "INTERNAL_ERROR" /\ ~proc[p].cookieCleared

\* C11: with threshold < TTL, a session that is not deleted and whose reads
\* (counted from its creation) are never more than TTL - threshold apart
\* never expires: each of those getSession calls finds the record, finds it
\* unexpired, and returns a record.
C11_Step(p) ==
  /\ ( /\ proc[p].pc = "getSession_check" /\ proc'[p] # proc[p]
       /\ config.SESSION_SLIDING_EXTENSION_SECONDS < config.SESSION_TTL_SECONDS
       /\ chain[proc[p].tok] # NoTime )
       => /\ clock - chain[proc[p].tok] <= MaxGap
          /\ proc[p].data # <<>>
          /\ proc[p].data[1].exp > clock
          /\ proc'[p].pc \in {"getSession_setEx", "done"}
          /\ proc'[p].pc = "done" => proc'[p].out # <<>>
          /\ chain'[proc[p].tok] = clock
  /\ proc[p].pc = "getSession_setEx" /\ proc'[p] # proc[p]
       => proc'[p].pc = "done" /\ proc'[p].out # <<>>

C11_ReadInTimeNeverExpires == [][\A p \in Procs : C11_Step(p)]_vars

\* A read that succeeds at or after the expiry the session was created with.
C11_Witness ==
  \E p \in Procs :
    /\ Done(p, "getSession") /\ proc[p].out # <<>>
    /\ chain[proc[p].tok] # NoTime
    /\ proc[p].now >= proc[p].out[1].createdAt + TTL

\* C12: a getSession called right after createSession(u, ...) returned, with
\* no clock advance since the session was created, returns a record owned
\* by u with lastUsedAt = createdAt = the time of creation and
\* expiresAt = createdAt + TTL.
C12_ReadAfterCreate ==
  \A p \in Procs :
    ( /\ Done(p, "getSession") /\ fresh # <<>>
      /\ proc[p].tok = fresh[1].tok
      /\ clock = fresh[1].at )
      => /\ proc[p].out # <<>>
         /\ proc[p].out[1].uid = fresh[1].uid
         /\ proc[p].out[1].createdAt = fresh[1].at
         /\ proc[p].out[1].lastUsedAt = proc[p].out[1].createdAt
         /\ proc[p].out[1].exp = proc[p].out[1].createdAt + TTL

C12_Witness ==
  \E p \in Procs :
    /\ Done(p, "getSession") /\ fresh # <<>>
    /\ proc[p].tok = fresh[1].tok
    /\ clock = fresh[1].at /\ clock > 0
    /\ proc[p].out # <<>>
    /\ fresh[1].uid = "u2"

\* C13: sessions created one after the other for a user get distinct tokens;
\* while all of the user's sessions are within the lifetime they were
\* created with, listUserSessions(u) lists each one that is not deleted, and
\* nothing else; a deleteSession on one leaves every other session's record
\* and index entry as they were, so that listUserSessions(u) then returns
\* exactly the others.
ListedIds(out) == {out[i].tokenId : i \in 1..Len(out)}

C13_Listed ==
  \A p \in Procs :
    ( /\ Done(p, "listUserSessions") /\ ~proc[p].err
      /\ \A t \in issued[proc[p].uid] : born[t] # NoTime ) =>
      /\ \A t \in issued[proc[p].uid] :
            chain[t] # NoTime => t \in ListedIds(proc[p].out)
      /\ ListedIds(proc[p].out) \subseteq issued[proc[p].uid] \ revoked
      /\ Len(proc[p].out) = Cardinality(ListedIds(proc[p].out))

C13_Step(p) ==
  /\ proc[p].pc = "idle" /\ proc'[p].op = "createSession"
       => /\ proc'[p].tok \notin used
          /\ proc'[p].tok \notin UNION {issued[u] : u \in Users}
  /\ proc[p].op = "deleteSession" /\ proc'[p] # proc[p]
       => \A t \in AllTokens \ {proc[p].tok} :
            /\ sess'[t] = sess[t]
            /\ \A u \in Users : t \in idx[u] => t \in idx'[u] /\ idxTtl'[u] = idxTtl[u]

C14_SessionPathFailures ==
  \A p \in Procs :
    proc[p].pc = "done" /\ proc[p].mw # "none" /\ proc[p].cookieRead =>
      /\ proc[p].cookie = NoToken =>
           /\ proc[p].resp = "AUTHENTICATION_REQUIRED"
           /\ ~proc[p].cookieCleared
           /\ proc[p].reqUser = <<>> /\ proc[p].reqSession = <<>>
      /\ proc[p].cookie # NoToken /\ proc[p].op = "getSession" /\ proc[p].out = <<>> =>
           /\ proc[p].resp = "INVALID_TOKEN"
           /\ proc[p].cookieCleared
           /\ proc[p].reqUser = <<>> /\ proc[p].reqSession = <<>>

\* The cookie of a session that has expired is rejected and cleared.
C14_Witness ==
  \E p \in Procs :
    /\ proc[p].pc = "done" /\ proc[p].mw = "requireAuth" /\ proc[p].cookieRead
    /\ proc[p].cookie \in UNION {issued[u] : u \in Users}
    /\ proc[p].cookie \notin revoked
    /\ ~proc[p].storeErr
    /\ proc[p].resp = "INVALID_TOKEN" /\ proc[p].cookieCleared

\* C15: when the owner of a valid session is missing from the User Store the
\* authenticator calls deleteSession on that session and, once it has
\* returned, answers AUTHENTICATION_REQUIRED with the record gone; when the
\* owner is inactive it answers USER_INACTIVE and writes nothing to the
\* session record or the index; when the owner is active (again) the
\* request is passed on with the owner as principal.
HandlerPcs == {"listUserApiKeys", "createApiKey_findUnique", "deleteApiKey"}

C15_Deleted ==
  \A p \in Procs :
    proc[p].pc = "done" /\ proc[p].mw # "none" /\ proc[p].op = "deleteSession" =>
      /\ proc[p].reqUser = <<>>
      /\ ~proc[p].err =>
           /\ proc[p].resp = "AUTHENTICATION_REQUIRED"
           /\ sess[proc[p].tok] = <<>>

C15_Step(p) ==
  ( /\ proc[p].pc = "auth_findUnique" /\ proc'[p] # proc[p]
    /\ faults' = faults ) =>
    LET uid == proc[p].out[1].uid
    IN /\ users[uid] = <<>> =>
            /\ proc'[p].pc = "deleteSession_get" /\ proc'[p].op = "deleteSession"
            /\ proc'[p].tok = proc[p].cookie
            /\ proc'[p].reqUser = <<>>
       /\ users[uid] # <<>> /\ ~users[uid][1].isActive =>
            /\ proc'[p].pc = "done" /\ proc'[p].resp = "USER_INACTIVE"
            /\ proc'[p].reqUser = <<>> /\ ~proc'[p].cookieCleared
            /\ sess' = sess /\ idx' = idx /\ idxTtl' = idxTtl
       /\ users[uid] # <<>> /\ users[uid][1].isActive =>
            /\ proc'[p].pc \in HandlerPcs
            /\ proc'[p].reqUser # <<>> /\ proc'[p].reqUser[1].id = uid

C15_MissingAndInactiveOwner == []C15_Deleted /\ [][\A p \in Procs : C15_Step(p)]_vars

\* An inactive owner is turned away, the session is still in place.
C15_Witness ==
  \E p \in Procs :
    /\ proc[p].pc = "done" /\ proc[p].resp = "USER_INACTIVE"
    /\ sess[proc[p].cookie] # <<>>
    /\ sess[proc[p].cookie][1].val.exp > clock
    /\ proc[p].cookie \in idx[sess[proc[p].cookie][1].val.uid]

\* C16: the plaintext createApiKey(u, ...) hands out matches
\* ^([a-z]{1,12}_)?[0-9a-f]{128}$ whatever u's e-mail address looks like,
\* and is stored by its hash under u; validateApiKey accepts it, with u as
\* principal, on every call for which the lookup works, the key is stored
\* and unexpired and u is active; every other plaintext (one hex character
\* changed, never generated, malformed) is answered with none.
SampleEmails ==
  {<<"B", "a", "r", "t", "h", "o", "l", "o", "m", "e", "w", ".", "L", "o", "n", "g", "@", "x">>,
   <<"J", "-", "P", "9", "@", "e", "x", ".", "i", "o">>,
   <<"1", "2", "3", "@", "x">>,
   <<"n", "o", "a", "t">>,
   <<"@", "x">>}

GeneratedKeysMatch ==
  \A e \in SampleEmails \cup {Email(u) : u \in Users}, b \in RandomHex :
    API_KEY_REGEX(KeyText([name |-> extractUsername(e), body |-> b]))

Accepted(k, now) ==
  /\ ~KeyExpired(k, now)
  /\ users[k.userId] # <<>> /\ users[k.userId][1].isActive

C16_Answered ==
  /\ GeneratedKeysMatch
  /\ \A k \in minted : validateApiKeyFormat(k)
  /\ \A p \in Procs :
       proc[p].pc = "done" /\ proc[p].mw = "requireAuth" /\ proc[p].bearer # NoKey =>
         /\ proc[p].bearer \notin minted =>
              proc[p].resp = "INVALID_TOKEN" /\ proc[p].reqUser = <<>>
         /\ proc[p].reqUser # <<>> => proc[p].bearer \in minted

C16_Step(p) ==
  /\ proc[p].pc = "createApiKey_create" /\ proc'[p] # proc[p] /\ apiKeys' # apiKeys =>
       /\ proc'[p].resp = "CREATED" /\ proc'[p].out = <<proc[p].plaintext>>
       /\ proc[p].plaintext \in minted
       /\ \E k \in apiKeys' \ apiKeys :
            /\ apiKeys' = apiKeys \cup {k}
            /\ k.userId = proc[p].reqUser[1].id
            /\ k.userId = proc[p].reqSession[1].uid
            /\ k.keyHash = hashApiKey(proc[p].plaintext)
  /\ ( /\ proc[p].pc = "validateApiKey_findFirst" /\ proc'[p] # proc[p]
       /\ faults' = faults
       /\ proc[p].bearer \in minted ) =>
       LET stored == {k \in apiKeys : k.keyHash = hashApiKey(proc[p].bearer)}
       IN /\ Cardinality(stored) <= 1
          /\ \A k \in stored :
               IF Accepted(k, clock)
               THEN /\ proc'[p].pc \in HandlerPcs
                    /\ proc'[p].reqUser # <<>>
                    /\ proc'[p].reqUser[1].id = k.userId
                    /\ proc'[p].reqApiKey = <<k.id>>
               ELSE proc'[p].resp = "INVALID_TOKEN" /\ proc'[p].reqUser = <<>>
          /\ stored = {} => proc'[p].resp = "INVALID_TOKEN" /\ proc'[p].reqUser = <<>>

C16_KeyRoundTrip == []C16_Answered /\ [][\A p \in Procs : C16_Step(p)]_vars

\* A key that has been used before is accepted once more.
C16_Witness ==
  \E p \in Procs :
    /\ proc[p].pc = "done" /\ proc[p].resp = "OK"
    /\ proc[p].bearer \in minted
    /\ proc[p].reqUser # <<>>
    /\ \E k \in apiKeys : k.id = proc[p].reqApiKey[1] /\ k.lastUsedAt # NoExpiry

\* C17: validateApiKey answers none for a key whose expiresAt is set and
\* <= now, although its text is well-formed and its hash is that of a stored
\* record, and just the same once the expired record has been cleaned up;
\* a key without expiresAt is never turned away for its age.
C17_Step(p) ==
  ( /\ proc[p].pc = "validateApiKey_findFirst" /\ proc'[p] # proc[p]
    /\ faults' = faults ) =>
    LET stored == {k \in apiKeys : k.keyHash = hashApiKey(proc[p].bearer)}
        refused == /\ proc'[p].pc = "done" /\ proc'[p].resp = "INVALID_TOKEN"
                   /\ proc'[p].reqUser = <<>> /\ proc'[p].reqApiKey = <<>>
                   /\ touch' = touch
    IN /\ validateApiKeyFormat(proc[p].bearer)
       /\ \A k \in stored :
            /\ k.expiresAt # NoExpiry /\ k.expiresAt <= clock => refused
            /\ ( /\ k.expiresAt = NoExpiry
                 /\ users[k.userId] # <<>> /\ users[k.userId][1].isActive )
                 => ~refused /\ proc'[p].reqApiKey = <<k.id>>
       /\ stored = {} => refused

C17_ExpiredKeyRefused == [][\A p \in Procs : C17_Step(p)]_vars

\* Turned away at the very second of expiry, the record still stored.
C17_Witness ==
  \E p \in Procs :
    /\ proc[p].pc = "done" /\ proc[p].resp = "INVALID_TOKEN" /\ ~proc[p].storeErr
    /\ proc[p].bearer \in minted
    /\ \E k \in apiKeys :
         /\ k.keyHash = hashApiKey(proc[p].bearer)
         /\ k.expiresAt = clock
         /\ users[k.userId] # <<>> /\ users[k.userId][1].isActive

\* C18: a Bearer credential that is malformed, unknown, expired or owned by
\* an inactive user gets one and the same answer: validateApiKey returns
\* none, requireAuth responds INVALID_TOKEN, nothing is attached to the
\* request and nothing is written.
Visible(q) == <<q.pc, q.resp, q.out, q.cookieCleared, q.reqUser, q.reqSession, q.reqApiKey>>
Refusal == <<"done", "INVALID_TOKEN", <<>>, FALSE, <<>>, <<>>, <<>>>>

C18_Step(p) ==
  /\ ( /\ proc[p].pc = "idle" /\ proc'[p].mw = "requireAuth"
       /\ proc'[p].bearer # NoKey
       /\ ~validateApiKeyFormat(proc'[p].bearer) )
       => Visible(proc'[p]) = Refusal
  /\ ( /\ proc[p].pc = "validateApiKey_findFirst" /\ proc'[p] # proc[p]
       /\ LET stored == {k \in apiKeys : k.keyHash = hashApiKey(proc[p].bearer)}
          IN \/ stored = {}
             \/ \E k \in stored : k.expiresAt # NoExpiry /\ k.expiresAt <= clock
             \/ \E k \in stored : users[k.userId] = <<>> \/ ~users[k.userId][1].isActive )
       => /\ Visible(proc'[p]) = Refusal
          /\ apiKeys' = apiKeys /\ touch' = touch

C18_FailuresLookAlike == [][\A p \in Procs : C18_Step(p)]_vars

\* The key of an inactive user, stored and unexpired, is refused.
C18_Witness ==
  \E p \in Procs :
    /\ Visible(proc[p]) = Refusal /\ ~proc[p].storeErr
    /\ proc[p].bearer \in minted
    /\ \E k \in apiKeys :
         /\ k.keyHash = hashApiKey(proc[p].bearer)
         /\ ~KeyExpired(k, clock)
         /\ users[k.userId] # <<>> /\ ~users[k.userId][1].isActive

\* C19: when validateApiKey succeeds requireAuth attaches the principal and
\* passes the request on in the same step, the updateLastUsed write still
\* pending; when that write runs it changes lastUsedAt of that key and
\* nothing else, and when it fails it changes nothing: no request in flight
\* is touched by it either way.
Untimed(keys) == {[k EXCEPT !.lastUsedAt = NoExpiry] : k \in keys}

C19_Step ==
  /\ \A p \in Procs :
       proc[p].pc = "validateApiKey_findFirst" /\ proc'[p].reqApiKey # <<>> =>
         /\ proc'[p].pc \in HandlerPcs
         /\ proc'[p].reqUser # <<>>
         /\ proc'[p].reqApiKey[1] \in touch'
         /\ apiKeys' = apiKeys
  /\ touch' # touch /\ touch' \subseteq touch =>
       /\ proc' = proc
       /\ Untimed(apiKeys') = Untimed(apiKeys)
       /\ \A k \in apiKeys' \ apiKeys : k.id \in touch \ touch' /\ k.lastUsedAt = clock
       /\ faults' # faults => apiKeys' = apiKeys
       /\ UNCHANGED <<clock, config, sess, idx, idxTtl, used, issued, revoked, users, minted>>

C19_LastUsedIsBestEffort == [][C19_Step]_vars

\* The request was served although the write for it failed.
C19_Witness ==
  \E p \in Procs :
    /\ proc[p].pc = "done" /\ proc[p].resp = "OK" /\ proc[p].reqApiKey # <<>>
    /\ proc[p].reqApiKey[1] \notin touch
    /\ \E k \in apiKeys : k.id = proc[p].reqApiKey[1] /\ k.lastUsedAt = NoExpiry

\* C20: deleteApiKey(keyId, userId) removes the key with that id when it
\* belongs to userId, in one step and nothing else with it; when there is no
\* such key, or it belongs to another user, the answer is
\* API_KEY_NOT_FOUND and the stored API keys are as before.
C20_Step(p) ==
  ( /\ proc[p].pc = "deleteApiKey" /\ proc'[p] # proc[p]
    /\ faults' = faults ) =>
    LET own == {k \in apiKeys : k.id = proc[p].param /\ k.userId = proc[p].reqUser[1].id}
    IN /\ proc'[p].pc = "done"
       /\ own # {} =>
            /\ proc'[p].resp = "OK"
            /\ apiKeys' = apiKeys \ own
            /\ Cardinality(own) = 1
       /\ own = {} =>
            /\ proc'[p].resp = "API_KEY_NOT_FOUND"
            /\ apiKeys' = apiKeys

C20_DeleteOwnKeyOnly == [][\A p \in Procs : C20_Step(p)]_vars

\* Another user's key is asked for: not found, and still there.
C20_Witness ==
  \E p \in Procs :
    /\ proc[p].pc = "done" /\ proc[p].resp = "API_KEY_NOT_FOUND"
    /\ \E k \in apiKeys : k.id = proc[p].param /\ k.userId # proc[p].reqUser[1].id

\* C21: a request is let through exactly when some role q that is required
\* lies in the expansion of some role r of the principal, the expansion
\* being ADMIN -> {ADMIN, USER, GUEST}, USER -> {USER, GUEST},
\* GUEST -> {GUEST} in hierarchical mode and r -> {r} in exact-match mode;
\* so ADMIN passes a check for USER or GUEST, a GUEST-only principal fails
\* a check for ADMIN.
Expansion(r, hierarchical) ==
  IF ~hierarchical THEN {r}
  ELSE CASE r = "ADMIN" -> {"ADMIN", "USER", "GUEST"}
         [] r = "USER" -> {"USER", "GUEST"}
         [] r = "GUEST" -> {"GUEST"}

C21_RoleAuthorization ==
  \A p \in Procs :
    proc[p].pc = "done" /\ proc[p].mw = "requireRoles" =>
      LET mine == proc[p].reqUser[1].roles
          required == proc[p].allowedRoles
          reach == UNION {Expansion(r, proc[p].hierarchical) : r \in mine}
      IN /\ proc[p].resp \in {"NEXT", "INSUFFICIENT_PERMISSIONS"}
         /\ proc[p].resp = "NEXT" <=> reach \cap required # {}
         /\ ( /\ proc[p].hierarchical /\ "ADMIN" \in mine
              /\ required \cap {"USER", "GUEST"} # {} ) => proc[p].resp = "NEXT"
         /\ mine = {"GUEST"} /\ required = {"ADMIN"} =>
              proc[p].resp = "INSUFFICIENT_PERMISSIONS"

\* An administrator passes a check that asks for USER.
C21_Witness ==
  \E p \in Procs :
    /\ proc[p].pc = "done" /\ proc[p].mw = "requireRoles"
    /\ proc[p].reqUser[1].roles = {"ADMIN"}
    /\ proc[p].allowedRoles = {"USER"}
    /\ proc[p].hierarchical
    /\ proc[p].resp = "NEXT"

\* C22: no log entry holds the text of an API key, and an API-key record
\* holds the key's hash only; what a log entry or listUserApiKeys shows of
\* a key is the last six characters of its hash; the key itself is handed
\* out in the answer of the createApiKey request that made it.
PlainTexts == {KeyText(k) : k \in KeyUniverse}
Fingerprints == {KeyFingerprint(hashApiKey(k)) : k \in KeyUniverse}

C22_PlaintextNeverStored ==
  /\ \A k \in apiKeys :
       /\ k.keyHash \in 0..(DigestMod - 1)
       /\ \E m \in minted : k.keyHash = hashApiKey(m)
       /\ DOMAIN k = {"id", "userId", "keyHash", "expiresAt", "lastUsedAt"}
  /\ \A p \in Procs :
       /\ \A e \in proc[p].log :
            /\ e.keyFingerprint \notin PlainTexts
            /\ e.tokenIdHash \notin PlainTexts
            /\ e.sessionId \notin PlainTexts
            /\ e.keyFingerprint # <<>> => e.keyFingerprint \in Fingerprints
       /\ proc[p].pc = "done" /\ proc[p].route = "GET /api-keys" /\ proc[p].resp = "OK" =>
            \A m \in proc[p].out[1] :
              /\ DOMAIN m = {"id", "expiresAt", "lastUsedAt", "keyFingerprint"}
              /\ \E k \in minted : m.keyFingerprint = KeyFingerprint(hashApiKey(k))
              /\ Len(m.keyFingerprint) = FingerprintLen
       /\ proc[p].resp = "CREATED" =>
            proc[p].out = <<proc[p].plaintext>> /\ proc[p].plaintext \in minted

\* A key was made and logged by its fingerprint.
C22_Witness ==
  \E p \in Procs :
    /\ proc[p].resp = "CREATED"
    /\ \E e \in proc[p].log :
         e.msg = "API key created" /\ Len(e.keyFingerprint) = FingerprintLen

\* C23: no log entry that a session operation or a handler writes holds a
\* whole session token; of a token at most the first eight characters are
\* logged.
FullTokens == {TokenText[t] : t \in AllTokens}

C23_NoTokenInLog ==
  \A p \in Procs : \A e \in proc[p].log :
    /\ e.sessionId \notin FullTokens
    /\ e.tokenIdHash \notin FullTokens
    /\ e.keyFingerprint \notin FullTokens
    /\ Len(e.sessionId) <= PrefixLen
    /\ Len(e.tokenIdHash) <= PrefixLen

\* The steps of createSession that send a command to Redis.
CreateSteps == {"createSession_setEx", "createSession_sAdd", "createSession_expire"}

\* C24: a createSession whose command Redis rejects ends with an error and
\* without a token, changes nothing further in the store, does not send
\* the command again, and the login, registration or OAuth handler that
\* called it answers INTERNAL_ERROR without having set the session
\* cookie; a command that is accepted is not sent a second time either.
C24_CreateSessionFails ==
  [][\A p \in Procs :
       (proc[p].op = "createSession" /\ proc[p].pc \in CreateSteps /\ proc'[p] # proc[p])
       => /\ proc'[p].pc # proc[p].pc
          /\ faults' < faults
             => /\ sess' = sess /\ idx' = idx /\ idxTtl' = idxTtl
                /\ issued' = issued
                /\ proc'[p].err /\ proc'[p].storeErr
                /\ proc'[p].out = <<>>
                /\ proc'[p].pc = "done"
                /\ proc'[p].resp = "INTERNAL_ERROR"
                /\ ~proc'[p].cookieSet]_vars

\* A login whose createSession failed at its second or third command has
\* been answered.
C24_Witness ==
  \E p \in Procs :
    /\ Done(p, "createSession") /\ proc[p].mw = "loginHandler"
    /\ proc[p].err /\ proc[p].storeErr
    /\ sess[proc[p].tok] # <<>>
    /\ proc[p].resp = "INTERNAL_ERROR" /\ ~proc[p].cookieSet

\* No SessionService call is in flight.
Quiescent == InFlight = {}

\* C25: while no call is in flight, and no command was ever rejected (the
\* store of this specification rejects none), every token whose session
\* record exists is a member of the session index of the record's user.
C25_LiveRecordIndexed ==
  Quiescent =>
    \A t \in AllTokens : sess[t] # <<>> => t \in idx[sess[t][1].val.uid]

\* C26: while no call is in flight, the index of a user does not expire
\* before any session record it lists: each write of a record
\* (createSession, the renewal in getSession) has set the index's time to
\* live to the full SESSION_TTL_SECONDS, as it has the record's.
C26_IndexOutlivesRecords ==
  Quiescent =>
    \A u \in Users : \A t \in idx[u] :
      sess[t] # <<>> => idxTtl[u] # NoTtl /\ idxTtl[u] >= sess[t][1].ttl

\* C27: when the second write of deleteSession is rejected, the session
\* record is gone already, or else its token is still in the index of its
\* user: no record is left that exists and is missing from the index.
C27_InterruptedDelete ==
  [][\A p \in Procs :
       (proc[p].pc = "deleteSession_del" /\ proc[p].data # <<>> /\ faults' < faults)
       => LET t == proc[p].tok
          IN sess'[t] = <<>> \/ t \in idx'[sess'[t][1].val.uid]]_vars

\* C28: when listUserSessions(u) has returned, the index of u holds none
\* of the tokens whose record the call found missing.
C28_MissingPruned ==
  \A p \in Procs :
    (Done(p, "listUserSessions") /\ ~proc[p].err)
    => proc[p].missing \cap idx[proc[p].uid] = {}

\* Call p was a getSession that found the record of its token unexpired.
FoundValid(p) == Done(p, "getSession") /\ ReadValid(proc[p])

\* C29: when two overlapping getSession calls on the same token have both
\* found it valid and have completed, each has returned a record; the
\* record is in the store as long as a returned expiry lies ahead, with the
\* user and the creation time the calls returned, and its expiry is not
\* earlier than the expiry either call wrote or returned.
C29_ConcurrentReads ==
  \A p, q \in Procs :
    (p # q /\ FoundValid(p) /\ FoundValid(q) /\ proc[p].tok = proc[q].tok)
    => LET t == proc[p].tok
       IN /\ proc[p].out # <<>> /\ proc[q].out # <<>>
          /\ proc[p].out[1].exp > clock => sess[t] # <<>>
          /\ sess[t] # <<>> =>
               /\ sess[t][1].val.uid = proc[p].out[1].uid
               /\ sess[t][1].val.createdAt = proc[p].out[1].createdAt
               /\ sess[t][1].val.exp >= proc[p].out[1].exp

\* Call p was a getSession that found the record of its token expired.
FoundExpired(p) ==
  /\ Done(p, "getSession")
  /\ proc[p].read # <<>> /\ proc[p].read[1].exp <= proc[p].now

\* C30, as stated: a getSession that finds a record with exp <= now
\* returns none without throwing, whether or not its deleteSession
\* succeeds, and when the delete succeeded the record and its index entry
\* are gone; a record that getSession returns has exp > now.
C30_NeverReturnsExpired ==
  \A p \in Procs :
    /\ (Done(p, "getSession") /\ proc[p].out # <<>>)
       => proc[p].out[1].exp > proc[p].now
    /\ FoundExpired(p)
       => /\ proc[p].out = <<>> /\ ~proc[p].err
          /\ ~proc[p].storeErr
             => /\ sess[proc[p].tok] = <<>>
                /\ proc[p].tok \notin idx[proc[p].read[1].uid]

\* C30, amended: a getSession that finds a record with exp <= now returns
\* none without throwing, whether or not its deleteSession succeeds; when
\* the delete succeeded the record is gone, and so is its index entry if
\* the record was still in the store when deleteSession read it; a record
\* that getSession returns has exp > now.
C30_ExpiredIsDeleted ==
  \A p \in Procs :
    /\ (Done(p, "getSession") /\ proc[p].out # <<>>)
       => proc[p].out[1].exp > proc[p].now
    /\ FoundExpired(p)
       => /\ proc[p].out = <<>> /\ ~proc[p].err
          /\ ~proc[p].storeErr
             => /\ sess[proc[p].tok] = <<>>
                /\ proc[p].data # <<>>
                   => proc[p].tok \notin idx[proc[p].read[1].uid]

\* A getSession found an expired record still in the store, and the
\* delete it started was rejected.
C30_Witness ==
  \E p \in Procs :
    FoundExpired(p) /\ proc[p].storeErr /\ proc[p].inner /\ sess[proc[p].tok] # <<>>

\* C31: a deleteSession whose read finds no record (the token never
\* existed, has expired or was deleted before) goes straight to its del
\* command, skipping the sRem, and completes without an error; none of
\* its steps changes a session record, an index or an index's time to
\* live.
C31_DeleteIsIdempotent ==
  [][\A p \in Procs :
       (proc[p].op = "deleteSession" /\ proc'[p] # proc[p])
       => /\ (proc[p].pc = "deleteSession_get" /\ Get(sess, proc[p].tok) = <<>>)
             => /\ proc'[p].pc = "deleteSession_del" /\ proc'[p].data = <<>>
                /\ sess' = sess /\ idx' = idx /\ idxTtl' = idxTtl
          /\ (proc[p].pc = "deleteSession_del" /\ proc[p].data = <<>>)
             => /\ proc'[p].pc = "done" /\ ~proc'[p].err /\ ~proc'[p].storeErr
                /\ sess' = sess /\ idx' = idx /\ idxTtl' = idxTtl]_vars

\* A deleteSession of a token that was handed out has completed without
\* having found the record, while its user still has an index.
C31_Witness ==
  \E p \in Procs : \E u \in Users :
    /\ Done(p, "deleteSession") /\ ~proc[p].err /\ proc[p].data = <<>>
    /\ proc[p].tok \in issued[u] /\ idx[u] # {}

\* The tokens of a list of session metadata.
Listed(list) == {list[i].tokenId : i \in 1..Len(list)}

\* C32: with one call at a time, listUserSessions(u) does not fail over a
\* missing record; while it runs, every token of u's index is still to be
\* fetched, collected or skipped, and these three are disjoint; a
\* collected token is one whose record existed when it was fetched (it is
\* not skipped, and it carries the record's times as long as the record
\* exists).  The result has one entry per collected token, holds every
\* token of the index whose record exists, and is in descending order of
\* lastUsedAt.
C32_ListIsExactAndSorted ==
  \A p \in Procs :
    /\ proc[p].pc = "listUserSessions_get"
       => /\ idx[proc[p].uid] \subseteq
               proc[p].tokset \cup Listed(proc[p].acc) \cup proc[p].missing
          /\ proc[p].tokset \cap (Listed(proc[p].acc) \cup proc[p].missing) = {}
          /\ Listed(proc[p].acc) \cap proc[p].missing = {}
          /\ Cardinality(Listed(proc[p].acc)) = Len(proc[p].acc)
    /\ Done(p, "listUserSessions")
       => LET list == proc[p].out
          IN /\ ~proc[p].err
             /\ Cardinality(Listed(list)) = Len(list)
             /\ Listed(list) \cap proc[p].missing = {}
             /\ Listed(list) \subseteq issued[proc[p].uid]
             /\ \A t \in idx[proc[p].uid] : sess[t] # <<>> => t \in Listed(list)
             /\ \A i \in 1..Len(list) :
                  sess[list[i].tokenId] # <<>> =>
                    list[i] = SessionMetadata(list[i].tokenId, sess[list[i].tokenId][1].val)
             /\ \A i, j \in 1..Len(list) :
                  i < j => list[i].lastUsedAt >= list[j].lastUsedAt

\* A list of two sessions, the one used last in front.
C32_Witness ==
  \E p \in Procs :
    /\ Done(p, "listUserSessions") /\ Len(proc[p].out) = 2
    /\ proc[p].out[1].lastUsedAt > proc[p].out[2].lastUsedAt

\* C33: a call of cleanupExpiredApiKeys that reaches the database removes
\* the keys whose expiresAt is set and not after now, and no other key,
\* and returns how many it removed; a call that the database rejects
\* removes nothing and returns 0; neither throws.
C33_CleanupExpired ==
  [][\A p \in Procs :
       (proc[p].pc = "idle" /\ proc'[p].op = "cleanupExpiredApiKeys")
       => /\ proc'[p].pc = "done" /\ ~proc'[p].err
          /\ apiKeys' \subseteq apiKeys
          /\ IF faults' = faults
             THEN /\ \A k \in apiKeys :
                       k \in apiKeys' <=> (k.expiresAt = NoExpiry \/ k.expiresAt > clock)
                  /\ proc'[p].out = <<Cardinality(apiKeys \ apiKeys')>>
             ELSE /\ apiKeys' = apiKeys
                  /\ proc'[p].out = <<0>>]_vars

\* A cleanup has removed a key and has left one that never expires and
\* one that expires later.
C33_Witness ==
  \E p \in Procs :
    /\ Done(p, "cleanupExpiredApiKeys") /\ proc[p].out = <<1>>
    /\ \E k \in apiKeys : k.expiresAt = NoExpiry
    /\ \E k \in apiKeys : k.expiresAt > clock

\* The responses that end a request in requireAuth or requireSession.
AuthErrors ==
  {"AUTHENTICATION_REQUIRED", "INVALID_TOKEN", "USER_INACTIVE", "INTERNAL_ERROR"}

\* C35: a step of requireAuth or requireSession either stays in the
\* middleware, or calls next() with a principal attached whose user row
\* exists and is active, or sends one of the middleware's error responses
\* with no principal attached and without calling next(); a principal,
\* once attached, is that of an active user, and is attached only to
\* requests that were passed on.
C35_Step(p) ==
  ( /\ proc'[p].mw \in {"requireAuth", "requireSession"}
    /\ proc[p].reqUser = <<>> /\ proc[p].pc # "done" /\ proc'[p] # proc[p] )
  => /\ proc'[p].pc \in HandlerPcs
        => /\ proc'[p].reqUser # <<>> /\ proc'[p].resp = "none"
           /\ users[proc'[p].reqUser[1].id] # <<>>
           /\ users[proc'[p].reqUser[1].id][1].isActive
     /\ proc'[p].pc = "done"
        => proc'[p].reqUser = <<>> /\ proc'[p].resp \in AuthErrors
     /\ proc'[p].reqUser # <<>> => proc'[p].pc \in HandlerPcs

C35_OnlyActivePrincipals ==
  /\ [](\A p \in Procs :
         proc[p].reqUser # <<>>
         => /\ proc[p].reqUser[1].isActive
            /\ proc[p].pc \in HandlerPcs \cup KeyHandlerPcs \cup {"done"})
  /\ [][\A p \in Procs : C35_Step(p)]_vars

\* A request with an API key was passed on to its handler.
C35_Witness ==
  \E p \in Procs :
    /\ proc[p].pc \in HandlerPcs /\ proc[p].mw = "requireAuth"
    /\ proc[p].reqApiKey # <<>> /\ proc[p].reqUser # <<>>
    /\ proc[p].reqUser[1].isActive

\* C36: when a createSession(u) and a deleteAllUserSessions(u) that ran
\* side by side have both completed, the session that was created is gone
\* altogether or it is there as a record and as a member of u's index: its
\* record does not exist without its token being in the index.
C36_CreateBesideDeleteAll ==
  \A p, q \in Procs :
    ( /\ Done(p, "createSession") /\ ~proc[p].err
      /\ Done(q, "deleteAllUserSessions") /\ ~proc[q].err
      /\ proc[p].uid = proc[q].uid )
    => (sess[proc[p].tok] = <<>> \/ proc[p].tok \in idx[proc[p].uid])

\* C37: when createSession has thrown, the store holds no record for the
\* token the call generated, and the index of the user does not hold the
\* token.
C37_FailedCreateLeavesNothing ==
  \A p \in Procs :
    (Done(p, "createSession") /\ proc[p].err)
    => sess[proc[p].tok] = <<>> /\ proc[p].tok \notin idx[proc[p].uid]


\* C34: the delete-session endpoint refuses the caller's current session
\* with CANNOT_DELETE_CURRENT_SESSION and a session of another user with
\* SESSION_NOT_FOUND, and in both cases the handler changes no session
\* record and no index entry.  (The store is reliable; the authentication
\* step before the handler may renew the current session.)
C34_Refused(q) ==
  /\ q.route = "DELETE /auth/sessions/:id"
  /\ q.reqUser # <<>>
  /\ \/ q.param = q.cookie
     \/ \E u \in Users \ {q.reqUser[1].id} : q.param \in issued[u]

C34_DeleteKeepsCurrentAndForeign ==
  /\ [](\A p \in Procs :
         (proc[p].pc = "done" /\ C34_Refused(proc[p]))
         => proc[p].resp = IF proc[p].param = proc[p].cookie
                           THEN "CANNOT_DELETE_CURRENT_SESSION"
                           ELSE "SESSION_NOT_FOUND")
  /\ [][\A p \in Procs :
          (C34_Refused(proc[p]) /\ proc'[p] # proc[p])
          => UNCHANGED <<sess, idx, idxTtl>>]_vars

\* A request to delete a live session of another user was refused.
C34_Witness ==
  \E p \in Procs :
    /\ proc[p].pc = "done" /\ proc[p].route = "DELETE /auth/sessions/:id"
    /\ proc[p].resp = "SESSION_NOT_FOUND"
    /\ \E u \in Users \ {proc[p].reqUser[1].id} :
         proc[p].param \in issued[u] /\ proc[p].param \in idx[u]
    /\ Get(sess, proc[p].param) # <<>>

\* C38: handling GET /auth/sessions changes no session record other than
\* that of the caller's current session.
C38_ListingIsReadOnly ==
  [][\A p \in Procs :
       (proc[p].route = "GET /auth/sessions" /\ proc'[p] # proc[p])
       => \A t \in AllTokens \ {proc[p].cookie} : sess'[t] = sess[t]]_vars


\* C39: an OAuth state is single-use: at most one validateOAuthState call
\* returns the data of a state, also when two calls presenting it overlap.
C39_StateIsSingleUse == \A st \in OAuthStates : validated[st] <= 1

==============================================================================
